---- MODULE Spec2Model ----
(***************************************************************************)
(* Merkle Patricia Trie of rust-ethereum/ethereum (crate `trie`, ops       *)
(* implementation, and crate `trie-memory`: MemoryTrieMut, TrieCollection).*)
(*                                                                         *)
(* Representation.  A MerkleNode/MerkleValue is a record.  A stored blob   *)
(* is the RLP item tree of a node (Encode), a hash is Keccak256 of a blob, *)
(* modelled as the collision-free wrapper [keccak |-> blob].  The byte     *)
(* length of the RLP encoding is computed by RlpLen, which decides         *)
(* inlining.  Option<T> is a sequence of length 0 (None) or 1 (Some).      *)
(***************************************************************************)
EXTENDS Integers, Sequences, FiniteSets, TLC

\* ------------------------------------------------------------------ bounds

\* Number of keys of KeyList the callers draw from.
NumKeys == 6

\* Largest number of entries held by a trie at one time.
MaxEntries == 4

\* how many entries the trie holds when its last calls are compared with the
\* trie before them
MaxUndoEntries == 3

\* how many keys the tries of a TrieCollection draw from
NumGcKeys == 2

\* how many tries a TrieCollection applies
MaxApplies == 3

\* how many inserts and deletes one DatabaseTrieMut takes
MaxOps == 1

\* Number of keys of IterKeyList the iterated tries draw from.
NumIterKeys == 4

\* how many tries are applied where the drains of the three stores are compared
MaxCommits == 3

\* longest nibble path given to the conversions
MaxPathLen == 3

\* longest byte key given to the conversions
MaxKeyLen == 2

\* how many keys the callers of the SecureTrieMut use
NumSecureKeys == 3

\* how many operations the threads that share a MemoryDatabase start in all
MaxThreadOps == 2

\* the threads that share a MemoryDatabase
Threads == {1, 2}

\* how many inserts and deletes a DatabaseTrieMut takes before it is applied
MaxStagedOps == 2

\* how many tries are applied one call at a time
MaxStepApplies == 3

\* how many hashes are read through the CachedHandle
NumCacheKeys == 3

\* how many times next() is called after it has returned None
MaxCallsAfterNone == 2

\* Length of the long value (a leaf holding it is never inlinable).
LongValueLen == 30

\* Inlining threshold: a node is inlinable when its RLP is shorter than this.
InlineThreshold == 32

\* ------------------------------------------------------------------ inputs

KeyList ==
  << <<16>>, <<17>>, <<16, 16>>, <<17, 16>>, <<>>, <<32>>, <<16, 32>>, <<32, 16>> >>

Keys == { KeyList[i] : i \in 1..NumKeys }

\* keys of the iterated tries: one under branch slot 15, one a prefix of another
IterKeyList ==
  << <<16>>, <<240>>, <<16, 32>>, <<>>, <<31>>, <<255>> >>

IterKeys == { IterKeyList[i] : i \in 1..NumIterKeys }

GcKeys == { KeyList[i] : i \in 1..NumGcKeys }

\* the keys of the tries whose drains are compared
CommitKeys == { <<16>>, <<17>> }

\* the keys given to the SecureTrieMut: the digests of the first two share
\* their first byte, the third shares their first nibble
SecureKeyList == << << 1 >>, << 18 >>, << 20 >>, << >>, << 16 >> >>

SecureKeys == { SecureKeyList[i] : i \in 1..NumSecureKeys }

\* the hashes read through the CachedHandle
CacheKeys == { [keccak |-> i] : i \in 1..NumCacheKeys }

ValueOfLen(n) == [i \in 1..n |-> 97]

Values == { ValueOfLen(0), ValueOfLen(1), ValueOfLen(LongValueLen) }

None == << >>

Some(v) == << v >>

\* ------------------------------------------------------------------ nibbles

\* a split of each byte that puts the low nibble first
low_nibble_first(key) ==
  [i \in 1..(2 * Len(key)) |->
     IF i % 2 = 1 THEN key[(i + 1) \div 2] % 16 ELSE key[i \div 2] \div 16]

\* nibble::from_key
from_key(key) ==
  [i \in 1..(2 * Len(key)) |->
     IF i % 2 = 1 THEN key[(i + 1) \div 2] \div 16 ELSE key[i \div 2] % 16]

\* slice[n..]
Drop(s, n) == SubSeq(s, n + 1, Len(s))

\* slice::starts_with
starts_with(s, prefix) ==
  /\ Len(prefix) <= Len(s)
  /\ SubSeq(s, 1, Len(prefix)) = prefix

Min(a, b) == IF a <= b THEN a ELSE b

\* length of nibble::common(a, b)
CommonLen(a, b) ==
  LET idx == { i \in 0..Min(Len(a), Len(b)) : \A j \in 1..i : a[j] = b[j] }
  IN  CHOOSE i \in idx : \A j \in idx : j <= i

\* nibble::common
common(a, b) == SubSeq(a, 1, CommonLen(a, b))

\* nibble::common_with_sub
common_with_sub(a, b) ==
  LET c == common(a, b)
  IN  [common |-> c, asub |-> Drop(a, Len(c)), bsub |-> Drop(b, Len(c))]

\* nibble::common_all over the keys of a map
RECURSIVE common_fold(_, _)
common_fold(cur, rest) ==
  IF rest = {} THEN cur
  ELSE LET k == CHOOSE x \in rest : TRUE
       IN  common_fold(common(cur, k), rest \ {k})

common_all(keys) ==
  IF keys = {} THEN << >>
  ELSE LET first == CHOOSE x \in keys : TRUE
       IN  common_fold(first, keys \ {first})

\* ------------------------------------------------------------------ nodes

Empty == [type |-> "Empty"]

Full(node) == [type |-> "Full", node |-> node]

Hash(h) == [type |-> "Hash", hash |-> h]

Leaf(nibble, value) == [type |-> "Leaf", nibble |-> nibble, value |-> value]

Extension(nibble, value) ==
  [type |-> "Extension", nibble |-> nibble, value |-> value]

Branch(nodes, additional) ==
  [type |-> "Branch", nodes |-> nodes, additional |-> additional]

empty_nodes == [i \in 0..15 |-> Empty]

\* ------------------------------------------------------------------ RLP

\* An RLP item: a byte string, a 32-byte hash string, or a list of items.
Data(bytes) == [kind |-> "data", bytes |-> bytes]

Data32(h) == [kind |-> "data32", hash |-> h]

List(items) == [kind |-> "list", items |-> items]

\* RlpStream::append_empty_data
EmptyData == Data(<< >>)

\* bytes needed to write a length
LenOfLen(n) == IF n < 256 THEN 1 ELSE 2

\* RLP length of a byte string
StrLen(bytes) ==
  IF Len(bytes) = 1 /\ bytes[1] < 128 THEN 1
  ELSE IF Len(bytes) < 56 THEN 1 + Len(bytes)
  ELSE 1 + LenOfLen(Len(bytes)) + Len(bytes)

\* RLP length of a list with the given payload length
ListLen(payload) ==
  IF payload < 56 THEN 1 + payload ELSE 1 + LenOfLen(payload) + payload

\* number of bytes of the encoding of an item
RECURSIVE RlpLen(_)
RECURSIVE SumRlpLen(_, _)
SumRlpLen(items, i) ==
  IF i > Len(items) THEN 0 ELSE RlpLen(items[i]) + SumRlpLen(items, i + 1)

RlpLen(item) ==
  CASE item.kind = "data" -> StrLen(item.bytes)
    [] item.kind = "data32" -> 33
    [] item.kind = "list" -> ListLen(SumRlpLen(item.items, 1))

\* Rlp::is_empty
is_empty(item) ==
  \/ item.kind = "data" /\ item.bytes = << >>
  \/ item.kind = "list" /\ item.items = << >>

\* Rlp::size: the number of data bytes, zero for a list
size(item) ==
  CASE item.kind = "data" -> Len(item.bytes)
    [] item.kind = "data32" -> 32
    [] item.kind = "list" -> 0

\* a packing of a path that leaves the first nibble of an odd path out of
\* the first byte
encode_without_first(vec, typ) ==
  IF Len(vec) % 2 = 0
  THEN << IF typ = "Leaf" THEN 32 ELSE 0 >>
       \o [j \in 1..(Len(vec) \div 2) |-> 16 * vec[2 * j - 1] + vec[2 * j]]
  ELSE << 16 + (IF typ = "Leaf" THEN 32 ELSE 0) >>
       \o [j \in 1..((Len(vec) - 1) \div 2) |-> 16 * vec[2 * j] + vec[2 * j + 1]]

\* nibble::encode: the hex-prefix bytes of a path
nibble_encode(vec, typ) ==
  LET flag == IF typ = "Leaf" THEN 32 ELSE 0
      n == Len(vec)
  IN  IF n % 2 = 0
      THEN << flag >> \o [j \in 1..(n \div 2) |-> 16 * vec[2 * j - 1] + vec[2 * j]]
      ELSE << 16 + flag + vec[1] >>
           \o [j \in 1..((n - 1) \div 2) |-> 16 * vec[2 * j] + vec[2 * j + 1]]

\* the i-th nibble (from 0) of a byte string
NibbleAt(data, i) ==
  IF i % 2 = 0 THEN data[i \div 2 + 1] \div 16 ELSE data[i \div 2 + 1] % 16

\* nibble::decode
nibble_decode(data) ==
  LET start_odd == (data[1] \div 16) % 2 = 1
      start_index == IF start_odd THEN 1 ELSE 2
      is_leaf == (data[1] \div 32) % 2 = 1
      len == Len(data) * 2
  IN  [nibble |-> [i \in 1..(len - start_index) |->
                     NibbleAt(data, start_index + i - 1)],
       typ |-> IF is_leaf THEN "Leaf" ELSE "Extension"]

\* impl Encodable for MerkleNode / MerkleValue
RECURSIVE Encode(_)
EncodeValue(value) ==
  CASE value.type = "Empty" -> EmptyData
    [] value.type = "Full" -> Encode(value.node)
    [] value.type = "Hash" -> Data32(value.hash)

Encode(node) ==
  CASE node.type = "Leaf" ->
         List(<< Data(nibble_encode(node.nibble, "Leaf")), Data(node.value) >>)
    [] node.type = "Extension" ->
         List(<< Data(nibble_encode(node.nibble, "Extension")),
                 EncodeValue(node.value) >>)
    [] node.type = "Branch" ->
         List([i \in 1..17 |->
                 IF i <= 16 THEN EncodeValue(node.nodes[i - 1])
                 ELSE IF node.additional = None THEN EmptyData
                 ELSE Data(node.additional[1])])

\* MerkleNode::decode / MerkleValue::decode
RECURSIVE Decode(_)
DecodeValue(item) ==
  IF is_empty(item) THEN Empty
  ELSE IF size(item) = 32 THEN Hash(item.hash)
  ELSE Full(Decode(item))

Decode(item) ==
  IF Len(item.items) = 2
  THEN LET hp == nibble_decode(item.items[1].bytes)
       IN  IF hp.typ = "Leaf"
           THEN Leaf(hp.nibble, item.items[2].bytes)
           ELSE Extension(hp.nibble, DecodeValue(item.items[2]))
  ELSE Branch([i \in 0..15 |-> DecodeValue(item.items[i + 1])],
              IF is_empty(item.items[17]) THEN None
              ELSE Some(item.items[17].bytes))

\* MerkleNode::inlinable
inlinable(node) == RlpLen(Encode(node)) < InlineThreshold

\* Keccak256 of a blob (collision-free)
Keccak256(blob) == [keccak |-> blob]

\* Keccak256(rlp::encode(""))
EMPTY_TRIE_HASH == Keccak256(EmptyData)

\* ------------------------------------------------------------------ Change

\* Change::default: additions (hash -> blob) and removals (set of hashes)
EmptyMap == [h \in {} |-> EmptyData]

ChangeDefault == [adds |-> EmptyMap, removes |-> {}]

MapPut(f, k, v) == [x \in DOMAIN f \cup {k} |-> IF x = k THEN v ELSE f[x]]

MapRemove(f, ks) == [x \in DOMAIN f \ ks |-> f[x]]

\* Change::add_raw
add_raw(change, key, value) ==
  [adds |-> MapPut(change.adds, key, value), removes |-> change.removes \ {key}]

\* Change::remove_raw
remove_raw(change, key) ==
  [adds |-> MapRemove(change.adds, {key}), removes |-> change.removes \cup {key}]

\* Change::add_node
add_node(change, node) ==
  add_raw(change, Keccak256(Encode(node)), Encode(node))

\* Change::add_value: the value that refers to the node, and the change
add_value(change, node) ==
  IF inlinable(node)
  THEN [value |-> Full(node), change |-> change]
  ELSE [value |-> Hash(Keccak256(Encode(node))), change |-> add_node(change, node)]

\* Change::merge: every addition of other is added, then every removal removed
merge(change, other) ==
  [adds |-> MapRemove(
              [x \in DOMAIN change.adds \cup DOMAIN other.adds |->
                 IF x \in DOMAIN other.adds THEN other.adds[x] ELSE change.adds[x]],
              other.removes),
   removes |-> (change.removes \ DOMAIN other.adds) \cup other.removes]

\* DatabaseHandle::get_with_error
Resolves(database, h) == h \in DOMAIN database

Err == [ok |-> FALSE]

\* ------------------------------------------------------------------ get

RECURSIVE get_by_node(_, _, _)
get_by_value(merkle, nibble, database) ==
  CASE merkle.type = "Empty" -> [ok |-> TRUE, value |-> None]
    [] merkle.type = "Full" -> get_by_node(merkle.node, nibble, database)
    [] merkle.type = "Hash" ->
         IF Resolves(database, merkle.hash)
         THEN get_by_node(Decode(database[merkle.hash]), nibble, database)
         ELSE Err

get_by_node(node, nibble, database) ==
  CASE node.type = "Leaf" ->
         IF node.nibble = nibble
         THEN [ok |-> TRUE, value |-> Some(node.value)]
         ELSE [ok |-> TRUE, value |-> None]
    [] node.type = "Extension" ->
         IF starts_with(nibble, node.nibble)
         THEN get_by_value(node.value, Drop(nibble, Len(node.nibble)), database)
         ELSE [ok |-> TRUE, value |-> None]
    [] node.type = "Branch" ->
         IF Len(nibble) = 0
         THEN [ok |-> TRUE, value |-> node.additional]
         ELSE get_by_value(node.nodes[nibble[1]], Drop(nibble, 1), database)

\* ------------------------------------------------------------------ insert

\* `let mut change; let mut additional; let mut nodes` of a branch being made
empty_branch ==
  [nodes |-> empty_nodes, additional |-> None, change |-> ChangeDefault]

\* nodes[i] = r.value, where r is what change.add_value returned
set_node(parts, i, r) ==
  [nodes |-> [parts.nodes EXCEPT ![i] = r.value],
   additional |-> parts.additional, change |-> r.change]

\* additional = Some(bvalue), or nodes[bi] = change.add_value(&Leaf(bsub, bvalue))
add_leaf(parts, bnibble, bvalue) ==
  IF Len(bnibble) = 0
  THEN [nodes |-> parts.nodes, additional |-> Some(bvalue),
        change |-> parts.change]
  ELSE set_node(parts, bnibble[1],
                add_value(parts.change, Leaf(Drop(bnibble, 1), bvalue)))

\* nodes[ai] = change.add_value(&Extension(asub, avalue)), or nodes[ai] = avalue
add_extension(parts, anibble, avalue) ==
  IF Len(anibble) > 1
  THEN set_node(parts, anibble[1],
                add_value(parts.change, Extension(Drop(anibble, 1), avalue)))
  ELSE set_node(parts, anibble[1], [value |-> avalue, change |-> parts.change])

\* (MerkleNode::Branch(nodes, additional), change)
to_branch(parts) ==
  [node |-> Branch(parts.nodes, parts.additional), change |-> parts.change]

value_and_leaf_branch(anibble, avalue, bnibble, bvalue) ==
  to_branch(add_leaf(add_extension(empty_branch, anibble, avalue),
                     bnibble, bvalue))

two_leaf_branch(anibble, avalue, bnibble, bvalue) ==
  to_branch(add_leaf(add_leaf(empty_branch, anibble, avalue), bnibble, bvalue))

\* Ok((new, change)) of insert_by_value
ok_value(r) == [ok |-> TRUE, value |-> r.value, change |-> r.change]

\* `change.merge(&subchange); change.add_value(&new_node)` after insert_by_node(..)?
merge_add_value(change, sub) ==
  IF ~sub.ok THEN Err
  ELSE ok_value(add_value(merge(change, sub.change), sub.node))

RECURSIVE insert_by_node(_, _, _, _)
insert_by_value(merkle, nibble, value, database) ==
  CASE merkle.type = "Empty" ->
         ok_value(add_value(ChangeDefault, Leaf(nibble, value)))
    [] merkle.type = "Full" ->
         merge_add_value(ChangeDefault,
                         insert_by_node(merkle.node, nibble, value, database))
    [] merkle.type = "Hash" ->
         IF ~Resolves(database, merkle.hash) THEN Err
         ELSE merge_add_value(remove_raw(ChangeDefault, merkle.hash),
                              insert_by_node(Decode(database[merkle.hash]),
                                             nibble, value, database))

\* MerkleNode::Extension(common, change.add_value(&branch))
ok_extension(nibble, r) ==
  [ok |-> TRUE, node |-> Extension(nibble, r.value), change |-> r.change]

\* `change.merge(&subchange)`, then the branch under the common prefix, if any
under_common(common_nibble, b) ==
  IF Len(common_nibble) > 0
  THEN ok_extension(common_nibble,
                    add_value(merge(ChangeDefault, b.change), b.node))
  ELSE [ok |-> TRUE, node |-> b.node, change |-> merge(ChangeDefault, b.change)]

\* the Leaf arm of insert_by_node, once common_with_sub has split the paths
split_leaf(c, node_value, value) ==
  under_common(c.common, two_leaf_branch(c.bsub, node_value, c.asub, value))

\* the Extension arm of insert_by_node, once common_with_sub has split the paths
split_extension(c, node_value, value) ==
  under_common(c.common, value_and_leaf_branch(c.bsub, node_value, c.asub, value))

\* MerkleNode::Extension(node_nibble, subvalue) after insert_by_value(..)?
extension_with(node_nibble, sub) ==
  IF ~sub.ok THEN Err
  ELSE [ok |-> TRUE, node |-> Extension(node_nibble, sub.value),
        change |-> merge(ChangeDefault, sub.change)]

\* `nodes[ni] = new; MerkleNode::Branch(nodes, ..)` after insert_by_value(..)?
branch_with(node, ni, sub) ==
  IF ~sub.ok THEN Err
  ELSE [ok |-> TRUE,
        node |-> Branch([node.nodes EXCEPT ![ni] = sub.value], node.additional),
        change |-> merge(ChangeDefault, sub.change)]

insert_by_node(node, nibble, value, database) ==
  CASE node.type = "Leaf" ->
         IF node.nibble = nibble
         THEN [ok |-> TRUE, node |-> Leaf(nibble, value), change |-> ChangeDefault]
         ELSE split_leaf(common_with_sub(nibble, node.nibble), node.value, value)
    [] node.type = "Extension" ->
         IF starts_with(nibble, node.nibble)
         THEN extension_with(node.nibble,
                             insert_by_value(node.value,
                                             Drop(nibble, Len(node.nibble)),
                                             value, database))
         ELSE split_extension(common_with_sub(nibble, node.nibble),
                              node.value, value)
    [] node.type = "Branch" ->
         IF Len(nibble) = 0
         THEN [ok |-> TRUE, node |-> Branch(node.nodes, Some(value)),
               change |-> ChangeDefault]
         ELSE branch_with(node, nibble[1],
                          insert_by_value(node.nodes[nibble[1]], Drop(nibble, 1),
                                          value, database))

insert_by_empty(nibble, value) ==
  [ok |-> TRUE, node |-> Leaf(nibble, value), change |-> ChangeDefault]

\* ------------------------------------------------------------------ delete

\* the node a non-empty value refers to, with the removal of its hash
find_and_remove_child(merkle, database) ==
  CASE merkle.type = "Full" ->
         [ok |-> TRUE, node |-> merkle.node, change |-> ChangeDefault]
    [] merkle.type = "Hash" ->
         IF Resolves(database, merkle.hash)
         THEN [ok |-> TRUE, node |-> Decode(database[merkle.hash]),
               change |-> remove_raw(ChangeDefault, merkle.hash)]
         ELSE Err

\* (MerkleNode::Extension(node_nibble, subvalue), change)
extension_of(node_nibble, r) ==
  [node |-> Extension(node_nibble, r.value), change |-> r.change]

collapse_extension(node_nibble, subnode) ==
  CASE subnode.type = "Leaf" ->
         [node |-> Leaf(node_nibble \o subnode.nibble, subnode.value),
          change |-> ChangeDefault]
    [] subnode.type = "Extension" ->
         [node |-> Extension(node_nibble \o subnode.nibble, subnode.value),
          change |-> ChangeDefault]
    [] subnode.type = "Branch" ->
         extension_of(node_nibble, add_value(ChangeDefault, subnode))

nonempty_node_count(nodes, additional) ==
  Len(additional) + Cardinality({ i \in 0..15 : nodes[i] # Empty })

\* the only child of a branch, pulled up under its index
pull_up(subindex, child) ==
  IF ~child.ok THEN Err
  ELSE CASE child.node.type = "Leaf" ->
              [ok |-> TRUE,
               node |-> Leaf(<< subindex >> \o child.node.nibble, child.node.value),
               change |-> merge(ChangeDefault, child.change)]
         [] child.node.type = "Extension" ->
              [ok |-> TRUE,
               node |-> Extension(<< subindex >> \o child.node.nibble,
                                  child.node.value),
               change |-> merge(ChangeDefault, child.change)]
         [] child.node.type = "Branch" ->
              ok_extension(<< subindex >>,
                           add_value(merge(ChangeDefault, child.change),
                                     child.node))

\* the index of the first non-empty child
first_child(node_nodes) ==
  CHOOSE i \in 0..15 : node_nodes[i] # Empty /\ \A j \in 0..(i - 1) : node_nodes[j] = Empty

collapse_branch(node_nodes, node_additional, database) ==
  IF nonempty_node_count(node_nodes, node_additional) = 1
  THEN IF node_additional # None
       THEN [ok |-> TRUE, node |-> Leaf(<< >>, node_additional[1]),
             change |-> ChangeDefault]
       ELSE pull_up(first_child(node_nodes),
                    find_and_remove_child(node_nodes[first_child(node_nodes)],
                                          database))
  ELSE [ok |-> TRUE, node |-> Branch(node_nodes, node_additional),
        change |-> ChangeDefault]

\* Ok((new, change)) after `change.merge(&subchange)`
merged(change, sub) ==
  IF ~sub.ok THEN Err
  ELSE [ok |-> TRUE, node |-> sub.node, change |-> merge(change, sub.change)]

\* The result's node is None when the subtree is gone, Some(node) otherwise.
RECURSIVE delete_by_node(_, _, _)
delete_by_child(merkle, nibble, database) ==
  CASE merkle.type = "Empty" ->
         [ok |-> TRUE, node |-> None, change |-> ChangeDefault]
    [] merkle.type = "Full" ->
         merged(ChangeDefault, delete_by_node(merkle.node, nibble, database))
    [] merkle.type = "Hash" ->
         IF ~Resolves(database, merkle.hash) THEN Err
         ELSE merged(remove_raw(ChangeDefault, merkle.hash),
                     delete_by_node(Decode(database[merkle.hash]), nibble,
                                    database))

\* `change.merge(&subchange); Some(new)` after a collapse
collapsed(change, c) ==
  IF ~c.ok THEN Err
  ELSE [ok |-> TRUE, node |-> Some(c.node), change |-> merge(change, c.change)]

\* collapse_extension never fails
collapsed_extension(change, c) ==
  [ok |-> TRUE, node |-> Some(c.node), change |-> merge(change, c.change)]

\* the Extension arm of delete_by_node after delete_by_child(..)?
delete_extension(node_nibble, sub) ==
  IF ~sub.ok THEN Err
  ELSE IF sub.node = None
  THEN [ok |-> TRUE, node |-> None, change |-> merge(ChangeDefault, sub.change)]
  ELSE collapsed_extension(merge(ChangeDefault, sub.change),
                           collapse_extension(node_nibble, sub.node[1]))

\* the end of the Branch arm of delete_by_node: `if needs_collapse { .. }`
delete_branch(parts, needs_collapse, database) ==
  IF ~needs_collapse
  THEN [ok |-> TRUE, node |-> Some(Branch(parts.nodes, parts.additional)),
        change |-> parts.change]
  ELSE IF nonempty_node_count(parts.nodes, parts.additional) > 0
  THEN collapsed(parts.change,
                 collapse_branch(parts.nodes, parts.additional, database))
  ELSE [ok |-> TRUE, node |-> None, change |-> parts.change]

\* the Branch arm of delete_by_node after delete_by_child(..)?
delete_branch_child(node, ni, sub, database) ==
  IF ~sub.ok THEN Err
  ELSE IF sub.node = None
  THEN delete_branch([nodes |-> [node.nodes EXCEPT ![ni] = Empty],
                      additional |-> node.additional,
                      change |-> merge(ChangeDefault, sub.change)],
                     TRUE, database)
  ELSE delete_branch(set_node([nodes |-> node.nodes,
                               additional |-> node.additional,
                               change |-> ChangeDefault],
                              ni,
                              add_value(merge(ChangeDefault, sub.change),
                                        sub.node[1])),
                     FALSE, database)

delete_by_node(node, nibble, database) ==
  CASE node.type = "Leaf" ->
         IF node.nibble = nibble
         THEN [ok |-> TRUE, node |-> None, change |-> ChangeDefault]
         ELSE [ok |-> TRUE, node |-> Some(node), change |-> ChangeDefault]
    [] node.type = "Extension" ->
         IF starts_with(nibble, node.nibble)
         THEN delete_extension(node.nibble,
                               delete_by_child(node.value,
                                               Drop(nibble, Len(node.nibble)),
                                               database))
         ELSE [ok |-> TRUE, node |-> Some(node), change |-> ChangeDefault]
    [] node.type = "Branch" ->
         IF Len(nibble) = 0
         THEN delete_branch([nodes |-> node.nodes, additional |-> None,
                             change |-> ChangeDefault],
                            TRUE, database)
         ELSE delete_branch_child(node, nibble[1],
                                  delete_by_child(node.nodes[nibble[1]],
                                                  Drop(nibble, 1), database),
                                  database)

\* ------------------------------------------------------------------ build

\* the entries of map selected by keep, each key without its first n nibbles
make_submap(common_len, map, keep) ==
  LET keys == { k \in DOMAIN map : keep[k] }
  IN  [s \in { Drop(k, common_len) : k \in keys } |->
         map[CHOOSE k \in keys : Drop(k, common_len) = s]]

build_value(node) == add_value(ChangeDefault, node)

RECURSIVE build_node(_)
RECURSIVE build_slots(_, _, _, _)
\* the loop `for i in 0..16` of build_node
build_slots(map, i, nodes, change) ==
  IF i > 15 THEN [nodes |-> nodes, change |-> change]
  ELSE LET submap == make_submap(1, map,
                       [k \in DOMAIN map |-> Len(k) > 0 /\ k[1] = i])
       IN  IF DOMAIN submap = {}
           THEN build_slots(map, i + 1, nodes, change)
           ELSE LET sub == build_node(submap)
                    v == build_value(sub.node)
                IN  build_slots(map, i + 1, [nodes EXCEPT ![i] = v.value],
                                merge(merge(change, sub.change), v.change))

build_node(map) ==
  IF Cardinality(DOMAIN map) = 1
  THEN LET key == CHOOSE k \in DOMAIN map : TRUE
       IN  [node |-> Leaf(key, map[key]), change |-> ChangeDefault]
  ELSE LET c == common_all(DOMAIN map)
       IN  IF Len(c) > 0
           THEN LET submap == make_submap(Len(c), map, [k \in DOMAIN map |-> TRUE])
                    sub == build_node(submap)
                    v == build_value(sub.node)
                IN  [node |-> Extension(c, v.value),
                     change |-> merge(merge(ChangeDefault, sub.change), v.change)]
           ELSE LET slots == build_slots(map, 0, empty_nodes, ChangeDefault)
                    additional == IF << >> \in DOMAIN map THEN Some(map[<< >>])
                                  ELSE None
                IN  [node |-> Branch(slots.nodes, additional),
                     change |-> slots.change]

\* ------------------------------------------------------------------ trie

\* trie::get
trie_get(root_hash, database, key) ==
  IF root_hash = EMPTY_TRIE_HASH THEN [ok |-> TRUE, value |-> None]
  ELSE IF ~Resolves(database, root_hash) THEN Err
  ELSE get_by_node(Decode(database[root_hash]), from_key(key), database)

\* Ok((root, change)) of trie::insert and trie::delete, after change.add_node(&new)
with_root(change, node) ==
  [ok |-> TRUE, root |-> Keccak256(Encode(node)), change |-> add_node(change, node)]

\* `change.merge(&subchange)` and the new root of trie::insert
inserted(change, sub) ==
  IF ~sub.ok THEN Err ELSE with_root(merge(change, sub.change), sub.node)

\* trie::insert
trie_insert(root_hash, database, key, value) ==
  IF root_hash = EMPTY_TRIE_HASH
  THEN inserted(ChangeDefault, insert_by_empty(from_key(key), value))
  ELSE IF ~Resolves(database, root_hash) THEN Err
  ELSE inserted(remove_raw(ChangeDefault, root_hash),
                insert_by_node(Decode(database[root_hash]), from_key(key),
                               value, database))

\* `change.merge(&subchange)` and the new root of trie::delete
deleted(change, sub) ==
  IF ~sub.ok THEN Err
  ELSE IF sub.node = None
  THEN [ok |-> TRUE, root |-> EMPTY_TRIE_HASH,
        change |-> merge(change, sub.change)]
  ELSE with_root(merge(change, sub.change), sub.node[1])

\* trie::delete
trie_delete(root_hash, database, key) ==
  IF root_hash = EMPTY_TRIE_HASH
  THEN [ok |-> TRUE, root |-> root_hash, change |-> ChangeDefault]
  ELSE IF ~Resolves(database, root_hash) THEN Err
  ELSE deleted(remove_raw(ChangeDefault, root_hash),
               delete_by_node(Decode(database[root_hash]), from_key(key),
                              database))

\* trie::build, of a map from byte keys to values
trie_build(map) ==
  IF DOMAIN map = {}
  THEN [root |-> EMPTY_TRIE_HASH, change |-> ChangeDefault]
  ELSE LET node_map == [n \in { from_key(k) : k \in DOMAIN map } |->
                          map[CHOOSE k \in DOMAIN map : from_key(k) = n]]
           sub == build_node(node_map)
       IN  [root |-> Keccak256(Encode(sub.node)),
            change |-> add_node(merge(ChangeDefault, sub.change), sub.node)]

\* ------------------------------------------------------------------ MerkleIterator (iter.rs)

\* nibble::into_key
into_key(nibble) ==
  [j \in 1..((Len(nibble) + 1) \div 2) |->
     16 * nibble[2 * j - 1] + (IF 2 * j <= Len(nibble) THEN nibble[2 * j] ELSE 0)]

\* MerkleIterator { prefix, value, index, child, is_empty }
MerkleIterator(prefix, value, index, child, empty) ==
  [prefix |-> prefix, value |-> value, index |-> index, child |-> child,
   is_empty |-> empty]

\* MerkleIterator::new
MerkleIterator_new(value) == MerkleIterator(<< >>, value, 0, None, FALSE)

\* MerkleIterator::empty
MerkleIterator_empty == MerkleIterator(<< >>, EmptyData, 0, None, TRUE)

\* what next() hands back: the iterator after the call, the item, and whether
\* the call completed (an unwrap() of a missing node does not)
Yield(self, out) == [it |-> self, out |-> out, ok |-> TRUE]

IterPanic(self) == [it |-> self, out |-> None, ok |-> FALSE]

\* prepare_value_as_child
prepare_value_as_child(database, prefix, subnibble, value) ==
  CASE value.type = "Empty" -> [ok |-> TRUE, child |-> None]
    [] value.type = "Full" ->
         [ok |-> TRUE,
          child |-> Some(MerkleIterator(prefix \o subnibble, Encode(value.node),
                                        0, None, FALSE))]
    [] value.type = "Hash" ->
         IF Resolves(database, value.hash)
         THEN [ok |-> TRUE,
               child |-> Some(MerkleIterator(prefix \o subnibble,
                                             database[value.hash], 0, None, FALSE))]
         ELSE [ok |-> FALSE, child |-> None]

RECURSIVE MerkleIterator_next(_, _)
RECURSIVE branch_loop(_, _, _, _)

\* self.child.as_mut().unwrap().next(): the child keeps its new state
from_child(self, r) ==
  [it |-> [self EXCEPT !.child = Some(r.it)], out |-> r.out, ok |-> r.ok]

\* a Leaf arm that is ready to yield again once it has returned None
leaf_rearmed(self, node) ==
  IF self.index = 0
  THEN Yield([self EXCEPT !.index = 1],
             Some(<< into_key(self.prefix \o node.nibble), node.value >>))
  ELSE Yield([self EXCEPT !.index = 0], None)

\* next(), Leaf arm
leaf_next(self, node) ==
  IF self.index = 0
  THEN Yield([self EXCEPT !.index = 1],
             Some(<< into_key(self.prefix \o node.nibble), node.value >>))
  ELSE Yield(self, None)

\* next(), Extension arm at index 0, given the prepared child
extension_first(database, self, p) ==
  IF ~ p.ok THEN IterPanic(self)
  ELSE IF p.child # None
  THEN from_child([self EXCEPT !.index = 1],
                  MerkleIterator_next(database, p.child[1]))
  ELSE Yield([self EXCEPT !.child = None], None)

\* next(), Extension arm
extension_next(database, self, node) ==
  IF self.index = 0
  THEN extension_first(database, self,
         prepare_value_as_child(database, self.prefix, node.nibble, node.value))
  ELSE from_child(self, MerkleIterator_next(database, self.child[1]))

\* next(), Branch arm, index < 16 with a child: the child's next()
branch_child(database, self, nodes, additional, r) ==
  IF ~ r.ok THEN IterPanic(self)
  ELSE IF r.out # None
  THEN Yield([self EXCEPT !.child = Some(r.it)], r.out)
  ELSE branch_loop(database, [self EXCEPT !.child = None], nodes, additional)

\* next(), Branch arm, index < 16 without a child: prepare the next slot
branch_prepare(database, self, nodes, additional, p) ==
  IF ~ p.ok THEN IterPanic(self)
  ELSE branch_loop(database, [self EXCEPT !.index = @ + 1, !.child = p.child],
                   nodes, additional)

\* next(), Branch arm: while self.index <= 16
branch_loop(database, self, nodes, additional) ==
  IF self.index > 16 THEN Yield(self, None)
  ELSE IF self.index < 16
  THEN IF self.child # None
       THEN branch_child(database, self, nodes, additional,
                         MerkleIterator_next(database, self.child[1]))
       ELSE branch_prepare(database, self, nodes, additional,
              prepare_value_as_child(database, self.prefix, << self.index >>,
                                     nodes[self.index]))
  ELSE IF additional # None
  THEN Yield([self EXCEPT !.index = @ + 1],
             Some(<< into_key(self.prefix), additional[1] >>))
  ELSE branch_loop(database, [self EXCEPT !.index = @ + 1], nodes, additional)

\* next() on the decoded node
node_next(database, self, node) ==
  CASE node.type = "Leaf" -> leaf_next(self, node)
    [] node.type = "Extension" -> extension_next(database, self, node)
    [] node.type = "Branch" ->
         branch_loop(database, self, node.nodes, node.additional)

\* impl Iterator for MerkleIterator: next
MerkleIterator_next(database, self) ==
  IF self.is_empty THEN Yield(self, None)
  ELSE node_next(database, self, Decode(self.value))

\* the iterator of the trie at a root: none for the empty trie
trie_iter(root_hash, database) ==
  IF root_hash = EMPTY_TRIE_HASH THEN MerkleIterator_empty
  ELSE MerkleIterator_new(database[root_hash])

\* ------------------------------------------------------------------ Trie (lib.rs)

\* Trie::get_by_value / Trie::get_by_node: Option<&[u8]>, a hash the store
\* lacks gives None
RECURSIVE Trie_get_by_node(_, _, _)
Trie_get_by_value(database, nibble, value) ==
  CASE value.type = "Empty" -> None
    [] value.type = "Full" -> Trie_get_by_node(database, nibble, value.node)
    [] value.type = "Hash" ->
         IF Resolves(database, value.hash)
         THEN Trie_get_by_node(database, nibble, Decode(database[value.hash]))
         ELSE None

Trie_get_by_node(database, nibble, node) ==
  CASE node.type = "Leaf" ->
         IF node.nibble = nibble THEN Some(node.value) ELSE None
    [] node.type = "Extension" ->
         IF starts_with(nibble, node.nibble)
         THEN Trie_get_by_value(database, Drop(nibble, Len(node.nibble)), node.value)
         ELSE None
    [] node.type = "Branch" ->
         IF Len(nibble) = 0 THEN node.additional
         ELSE Trie_get_by_value(database, Drop(nibble, 1), node.nodes[nibble[1]])

\* Trie::get of the trie { database, root }
Trie_get(database, root_hash, key) ==
  IF root_hash = EMPTY_TRIE_HASH THEN None
  ELSE IF Resolves(database, root_hash)
  THEN Trie_get_by_node(database, from_key(key), Decode(database[root_hash]))
  ELSE None

\* a get that asks the store for the root whatever the root is
looked_without_is_empty(db, root_hash, key) == { root_hash }

\* the hashes Trie::get_by_value / Trie::get_by_node pass to self.database.get
RECURSIVE Trie_get_by_node_looked(_, _, _)
Trie_get_by_value_looked(db, nibble, value) ==
  CASE value.type = "Empty" -> {}
    [] value.type = "Full" -> Trie_get_by_node_looked(db, nibble, value.node)
    [] value.type = "Hash" ->
         { value.hash }
           \cup (IF Resolves(db, value.hash)
                 THEN Trie_get_by_node_looked(db, nibble, Decode(db[value.hash]))
                 ELSE {})

Trie_get_by_node_looked(db, nibble, node) ==
  CASE node.type = "Leaf" -> {}
    [] node.type = "Extension" ->
         IF starts_with(nibble, node.nibble)
         THEN Trie_get_by_value_looked(db, Drop(nibble, Len(node.nibble)), node.value)
         ELSE {}
    [] node.type = "Branch" ->
         IF Len(nibble) = 0 THEN {}
         ELSE Trie_get_by_value_looked(db, Drop(nibble, 1), node.nodes[nibble[1]])

\* the hashes Trie::get passes to self.database.get
Trie_get_looked(db, root_hash, key) ==
  IF root_hash = EMPTY_TRIE_HASH THEN {}
  ELSE { root_hash }
         \cup (IF Resolves(db, root_hash)
               THEN Trie_get_by_node_looked(db, from_key(key), Decode(db[root_hash]))
               ELSE {})

\* Trie::insert into the empty trie: build_node of the one entry is a Leaf,
\* which is set in the store under its hash and made the root; the store is
\* not read
Trie_insert_empty(db, key, value) ==
  [database |-> MapPut(db, Keccak256(Encode(Leaf(from_key(key), value))),
                       Encode(Leaf(from_key(key), value))),
   root |-> Keccak256(Encode(Leaf(from_key(key), value)))]

\* build_node, lines 73-81 and 105-117: the child that holds a built node, Full
\* when the node is inlinable, and otherwise its hash, set in the store
Trie_build_child(sub) ==
  IF inlinable(sub.node)
  THEN [value |-> Full(sub.node), database |-> sub.database]
  ELSE [value |-> Hash(Keccak256(Encode(sub.node))),
        database |-> MapPut(sub.database, Keccak256(Encode(sub.node)),
                            Encode(sub.node))]

RECURSIVE Trie_build_node(_, _)
\* build_node, the loop `for i in 0..16`
RECURSIVE Trie_build_slots(_, _, _, _)
Trie_build_slots(db, m, i, nodes) ==
  IF i > 15 THEN [nodes |-> nodes, database |-> db]
  ELSE IF DOMAIN make_submap(1, m, [k \in DOMAIN m |-> Len(k) > 0 /\ k[1] = i]) = {}
  THEN Trie_build_slots(db, m, i + 1, nodes)
  ELSE Trie_build_slots(
         Trie_build_child(Trie_build_node(db,
           make_submap(1, m, [k \in DOMAIN m |-> Len(k) > 0 /\ k[1] = i]))).database,
         m, i + 1,
         [nodes EXCEPT ![i] =
            Trie_build_child(Trie_build_node(db,
              make_submap(1, m, [k \in DOMAIN m |-> Len(k) > 0 /\ k[1] = i]))).value])

\* build_node, lines 71-82: the Extension over the common prefix
Trie_build_extension(c, child) ==
  [node |-> Extension(c, child.value), database |-> child.database]

\* Trie::build_node of a map from paths to values, and the store it leaves
Trie_build_node(db, m) ==
  IF Cardinality(DOMAIN m) = 1
  THEN [node |-> Leaf(CHOOSE k \in DOMAIN m : TRUE, m[CHOOSE k \in DOMAIN m : TRUE]),
        database |-> db]
  ELSE IF Len(common_all(DOMAIN m)) > 1
  THEN Trie_build_extension(
         common_all(DOMAIN m),
         Trie_build_child(Trie_build_node(db,
           make_submap(Len(common_all(DOMAIN m)), m, [k \in DOMAIN m |-> TRUE]))))
  ELSE [node |-> Branch(Trie_build_slots(db, m, 0, empty_nodes).nodes,
                        IF << >> \in DOMAIN m THEN Some(m[<< >>]) ELSE None),
        database |-> Trie_build_slots(db, m, 0, empty_nodes).database]

\* lines 147-155 and 429-436: the node is set in the store and made the root
Trie_rooted(built) ==
  [database |-> MapPut(built.database, Keccak256(Encode(built.node)),
                       Encode(built.node)),
   root |-> Keccak256(Encode(built.node))]

\* Trie::build of a map from byte keys to values
Trie_build(db, m) ==
  IF DOMAIN m = {} THEN [database |-> db, root |-> EMPTY_TRIE_HASH]
  ELSE Trie_rooted(Trie_build_node(db,
         [n \in { from_key(k) : k \in DOMAIN m } |->
            m[CHOOSE k \in DOMAIN m : from_key(k) = n]]))

\* Trie::insert into a trie whose root is the Leaf leaf: insert_by_node, lines
\* 274-280, builds the node of the leaf's entry and the new entry
Trie_insert_leaf(db, leaf, key, value) ==
  Trie_rooted(Trie_build_node(db,
    [n \in {leaf.nibble, from_key(key)} |->
       IF n = from_key(key) THEN value ELSE leaf.value]))

\* ------------------------------------------------------------------ MemoryTrieMut

VARIABLES
  database,   \* MemoryTrieMut::database
  root,       \* MemoryTrieMut::root
  status,     \* "ok", or "panicked" once an unwrap() has failed
  map,        \* the key -> Option<value> map the completed calls describe
  undo,       \* (SpecUndo) what the last call was and the trie it started from
  pattern     \* (SpecDrain) "inserts", then "deletes"

memVars == << database, root, status, map, undo, pattern >>

\* MemoryTrieMut::apply_change
apply_change(db, change) ==
  MapRemove([h \in DOMAIN db \cup DOMAIN change.adds |->
               IF h \in DOMAIN change.adds THEN change.adds[h] ELSE db[h]],
            change.removes)

\* MemoryTrieMut::build
MemoryTrieMut_build(m) ==
  LET r == trie_build(m)
  IN  [database |-> apply_change(EmptyMap, r.change), root |-> r.root]

Present(m) == { k \in DOMAIN m : m[k] # None }

\* the map m as trie::build takes it
AsMap(m) == [k \in Present(m) |-> m[k][1]]

NoUndo == [phase |-> "none", key |-> << >>, root |-> EMPTY_TRIE_HASH,
           database |-> EmptyMap]

\* MemoryTrieMut::default
MemInit ==
  /\ database = EmptyMap
  /\ root = EMPTY_TRIE_HASH
  /\ status = "ok"
  /\ map = [k \in Keys |-> None]
  /\ undo = NoUndo
  /\ pattern = "inserts"

\* MemoryTrieMut::insert
MemoryTrieMut_insert(key, value) ==
  /\ status = "ok"
  /\ LET r == trie_insert(root, database, key, value)
     IN  IF r.ok
         THEN /\ database' = apply_change(database, r.change)
              /\ root' = r.root
              /\ map' = [map EXCEPT ![key] = Some(value)]
              /\ status' = "ok"
         ELSE /\ status' = "panicked"
              /\ UNCHANGED << database, root, map >>

\* MemoryTrieMut::delete
MemoryTrieMut_delete(key) ==
  /\ status = "ok"
  /\ LET r == trie_delete(root, database, key)
     IN  IF r.ok
         THEN /\ database' = apply_change(database, r.change)
              /\ root' = r.root
              /\ map' = [map EXCEPT ![key] = None]
              /\ status' = "ok"
         ELSE /\ status' = "panicked"
              /\ UNCHANGED << database, root, map >>

\* MemoryTrieMut::get
MemoryTrieMut_get(key) ==
  /\ status = "ok"
  /\ status' = IF trie_get(root, database, key).ok THEN "ok" ELSE "panicked"
  /\ UNCHANGED << database, root, map >>

\* ------------------------------------------------------------------ SecureTrieMut (mutable.rs)

\* a key used as it is
plain_key(key) == key

\* Keccak256::digest of a key, as the 32 bytes it is
Keccak256_digest(bytes) ==
  CASE bytes = << 1 >> ->
         << 95, 231, 249, 119, 231, 29, 186, 46, 161, 166, 142, 33, 5, 123, 238, 187,
            155, 226, 172, 48, 198, 65, 10, 163, 141, 79, 63, 190, 65, 220, 255, 210 >>
    [] bytes = << 18 >> ->
         << 95, 162, 53, 130, 99, 25, 109, 187, 242, 61, 28, 167, 165, 9, 69, 31,
            122, 47, 100, 193, 88, 55, 191, 187, 129, 41, 139, 30, 62, 36, 228, 250 >>
    [] bytes = << 20 >> ->
         << 88, 42, 168, 90, 213, 45, 16, 105, 154, 82, 228, 47, 177, 84, 103, 95,
            56, 189, 94, 75, 82, 36, 219, 221, 89, 3, 67, 161, 150, 242, 240, 23 >>
    [] bytes = << >> ->
         << 197, 210, 70, 1, 134, 247, 35, 60, 146, 126, 125, 178, 220, 199, 3, 192,
            229, 0, 182, 83, 202, 130, 39, 59, 123, 250, 216, 4, 93, 133, 164, 112 >>
    [] bytes = << 16 >> ->
         << 150, 127, 42, 44, 127, 61, 34, 249, 39, 129, 117, 193, 230, 170, 57, 207,
            145, 113, 219, 145, 220, 234, 205, 94, 224, 243, 124, 46, 80, 123, 90, 190 >>

\* SecureTrieMut::secure_key
secure_key(key) == Keccak256_digest(key)

\* T::default() of the wrapped MemoryTrieMut
TrieMut_default == [database |-> EmptyMap, root |-> EMPTY_TRIE_HASH, status |-> "ok"]

\* the wrapped trie after insert or delete got r: apply_change and the new
\* root, or the panic of unwrap()
TrieMut_after(t, r) ==
  IF r.ok
  THEN [database |-> apply_change(t.database, r.change), root |-> r.root,
        status |-> "ok"]
  ELSE [t EXCEPT !.status = "panicked"]

\* TrieMut::insert / delete / get of the wrapped MemoryTrieMut
TrieMut_insert(t, key, value) ==
  TrieMut_after(t, trie_insert(t.root, t.database, key, value))

TrieMut_delete(t, key) == TrieMut_after(t, trie_delete(t.root, t.database, key))

TrieMut_get(t, key) == trie_get(t.root, t.database, key)

\* SecureTrieMut::insert / delete / get
SecureTrieMut_insert(t, key, value) == TrieMut_insert(t, secure_key(key), value)

SecureTrieMut_delete(t, key) == TrieMut_delete(t, secure_key(key))

SecureTrieMut_get(t, key) == TrieMut_get(t, secure_key(key))

\* ------------------------------------------------------------------ MemoryDatabase (database/memory.rs)

\* a set that leaves nothing else in the map
set_alone(m, hash, value) == [x \in {hash} |-> value]

\* MemoryDatabaseGuard::get, on the map the lock gives
MemoryDatabaseGuard_get(m, hash) ==
  IF hash \in DOMAIN m THEN Some(m[hash]) ELSE None

\* MemoryDatabaseGuard::set, on the map the lock gives
MemoryDatabaseGuard_set(m, hash, value) == MapPut(m, hash, value)

\* the hashes a trie refers to from node on, through the nodes db holds
RECURSIVE HashesUnder(_, _)
HashesUnderValue(merkle, db) ==
  CASE merkle.type = "Empty" -> {}
    [] merkle.type = "Full" -> HashesUnder(merkle.node, db)
    [] merkle.type = "Hash" ->
         {merkle.hash} \cup (IF Resolves(db, merkle.hash)
                             THEN HashesUnder(Decode(db[merkle.hash]), db)
                             ELSE {})

HashesUnder(node, db) ==
  CASE node.type = "Leaf" -> {}
    [] node.type = "Extension" -> HashesUnderValue(node.value, db)
    [] node.type = "Branch" ->
         UNION { HashesUnderValue(node.nodes[i], db) : i \in 0..15 }

\* the hashes the trie at a root refers to
HashesOfRoot(root_hash, db) ==
  IF root_hash = EMPTY_TRIE_HASH THEN {}
  ELSE HashesUnderValue(Hash(root_hash), db)

\* ------------------------------------------------------------------ Cache (cache.rs), CachedHandle (lib.rs)

\* an at that returns the value of the node at cache_head
at_head(cache, index) ==
  IF Len(cache.list) = 0 THEN None ELSE Some(cache.list[1])

\* the loop of Cache::at, at the node in place pos of the list, whose index is
\* cur_index
RECURSIVE at_loop(_, _, _, _)
at_loop(cache, index, cur_index, pos) ==
  IF cur_index < index THEN None
  ELSE IF cur_index = index THEN Some(cache.list[pos])
  ELSE IF pos = Len(cache.list) THEN None
  ELSE at_loop(cache, index, cur_index - 1, pos + 1)

\* Cache::at
Cache_at(cache, index) ==
  IF Len(cache.list) = 0 THEN None
  ELSE at_loop(cache, index, cache.cache_len - 1, 1)

\* Cache::new
Cache_new == [map |-> EmptyMap, list |-> << >>, cache_len |-> 0]

\* Cache::insert: the cache it leaves
Cache_insert(cache, key, value) ==
  [map |-> MapPut(cache.map, key, cache.cache_len),
   list |-> << value >> \o cache.list,
   cache_len |-> cache.cache_len + 1]

\* Cache::get
Cache_get(cache, key) ==
  IF key \in DOMAIN cache.map THEN Cache_at(cache, cache.map[key]) ELSE None

\* Cache::contains_key
Cache_contains_key(cache, key) == key \in DOMAIN cache.map

\* CachedHandle::get: the handle it leaves, whether it called db.get, and what
\* it returns (`panicked` when an unwrap() meets None)
CachedHandle_get(h, key) ==
  IF ~ Cache_contains_key(h.cache, key)
  THEN [handle |-> [h EXCEPT !.cache = Cache_insert(h.cache, key, h.db[key])],
        read |-> TRUE,
        ret |-> Cache_at(Cache_insert(h.cache, key, h.db[key]), h.cache.cache_len)]
  ELSE [handle |-> h, read |-> FALSE, ret |-> Cache_get(h.cache, key)]

\* ------------------------------------------------------------------ TrieCollection

VARIABLES
  tc_database,  \* TrieCollection::database (a DatabaseMut)
  tc_counter,   \* TrieCollection::counter (an ItemCounter), hashes at zero left out
  tc_status,    \* "ok", or "panicked" once an unwrap() or a store read has failed
  trie,         \* the DatabaseTrieMut handed out by trie_for, if one is live
  committed,    \* the roots of the tries applied so far
  applies,      \* how many tries have been applied
  last          \* the last apply: the root it started from, the store before it

gcVars == << tc_database, tc_counter, tc_status, trie, committed, applies, last >>

\* ------------------------------------------------------------------ MerkleIterator

VARIABLES
  iter,       \* the MerkleIterator over the trie, once one is made
  yielded     \* the pairs its next() has returned so far, in order

iterVars == << iter, yielded >>

\* ------------------------------------------------------------------ RocksMemoryTrieMut

VARIABLES
  rocks_db,     \* the rocksdb store: hash -> blob
  rocks,        \* the RocksMemoryTrieMut made by new, if one is live, and how
                \* many have been applied
  rocks_roots,  \* the roots of the tries applied with Ok
  drained       \* the last drain of a change-set: the store before it, the
                \* change-set, and the puts and deletes it performed

rocksVars == << rocks_db, rocks, rocks_roots >>

\* the state of the components other than MemoryTrieMut and TrieCollection
VARIABLES
  calc          \* a conversion of merkle::nibble or merkle::node: its argument,
                \* the encoded form and what decoding the encoded form gives

VARIABLES
  lib_trie,     \* a Trie of lib.rs: { database, root }
  lib_call      \* its last call: the root it found, the hashes it passed to
                \* Database::get, and what it returned

libVars == << lib_trie, lib_call >>

VARIABLES
  secure        \* a SecureTrieMut over a MemoryTrieMut, beside a MemoryTrieMut
                \* given the digests of the same keys, the values last inserted,
                \* and what the last get returned

VARIABLES
  memory_db,    \* MemoryDatabase: the HashMap under the Mutex
  threads,      \* per thread, the Trie it holds over a MemoryDatabaseGuard and
                \* the ChangeSet its operation is draining
  pinned        \* a Trie made by create_trie(R) for a root R some thread has
                \* drained, the map as it was then, and its last guard-level get

sharedVars == << memory_db, threads, pinned >>

VARIABLES
  staged        \* the last call on the live DatabaseTrieMut: an insert, or the get
                \* of the key just inserted and what it returned

VARIABLES
  applying      \* a TrieCollection::apply under way: the additions and removals
                \* its loops have still to take, and the key the current turn of
                \* a loop is at

VARIABLES
  handle,       \* a CachedHandle: db, the store under it, and cache, the Cache
                \* (map, the list of nodes from cache_head on, cache_len)
  read_log      \* per hash, how often CachedDatabaseHandle::get was called for
                \* it and what the first call returned; the last get of the
                \* handle and what it returned

cacheVars == << handle, read_log >>

VARIABLES
  after_none    \* the calls of next(): how many were made in all, how many
                \* after the first None, and what the last of those returned

after25 == << staged, applying, cacheVars, after_none >>

lateVars == << sharedVars, after25 >>

moreVars == << calc, libVars, secure, lateVars >>

restVars == << iterVars, rocksVars, drained, moreVars >>

vars == << memVars, gcVars, restVars >>

NoTrie == [live |-> FALSE, root |-> EMPTY_TRIE_HASH, change |-> ChangeDefault,
           base |-> EMPTY_TRIE_HASH, ops |-> 0]

NoApply == [phase |-> "none", base |-> EMPTY_TRIE_HASH, root |-> EMPTY_TRIE_HASH,
            database |-> EmptyMap, counter |-> EmptyMap, change |-> ChangeDefault]

\* TrieCollection::new over an empty store and an empty counter
GcInit ==
  /\ tc_database = EmptyMap
  /\ tc_counter = EmptyMap
  /\ tc_status = "ok"
  /\ trie = NoTrie
  /\ committed = {}
  /\ applies = 0
  /\ last = NoApply

\* ItemCounter: the count of a hash
count(counter, h) == IF h \in DOMAIN counter THEN counter[h] ELSE 0

\* ItemCounter::increase
increase(counter, h) == MapPut(counter, h, count(counter, h) + 1)

\* ItemCounter::decrease (the count stays at zero for a hash never counted)
decrease(counter, h) ==
  IF count(counter, h) > 1 THEN MapPut(counter, h, count(counter, h) - 1)
  ELSE MapRemove(counter, {h})

\* the first loop of TrieCollection::apply
ApplyAdds(db, counter, adds) ==
  [database |-> [h \in DOMAIN db \cup DOMAIN adds |->
                   IF h \in DOMAIN adds THEN adds[h] ELSE db[h]],
   counter  |-> [h \in DOMAIN counter \cup DOMAIN adds |->
                   IF h \in DOMAIN adds THEN increase(counter, h)[h] ELSE counter[h]]]

\* a second loop that frees every removed hash, whatever count is left
FreedWhateverCount(counter, removes) == removes

\* the hashes the second loop of TrieCollection::apply frees
Freed(counter, removes) == { h \in removes : count(decrease(counter, h), h) = 0 }

\* the second loop of TrieCollection::apply
ApplyRemoves(s, removes) ==
  [database |-> [h \in DOMAIN s.database \ Freed(s.counter, removes) |->
                   s.database[h]],
   counter  |-> [h \in DOMAIN s.counter \ Freed(s.counter, removes) |->
                   IF h \in removes THEN decrease(s.counter, h)[h]
                   ELSE s.counter[h]]]

\* TrieCollection::apply
TrieCollection_apply(db, counter, change) ==
  ApplyRemoves(ApplyAdds(db, counter, change.adds), change.removes)

\* a second loop that frees a hash whatever decrease returned
freed_whatever(r) == TRUE

\* `if r == 0` of the second loop of TrieCollection::apply
freed_at(r) == r = 0

\* ------------------------------------------------------------------ drains

\* a store operation performed by a drain
PutOp(key, value) == [op |-> "put", key |-> key, value |-> value]

DeleteOp(key) == [op |-> "delete", key |-> key]

\* the effect of a store operation
RunOp(db, step) ==
  IF step.op = "put" THEN MapPut(db, step.key, step.value)
  ELSE MapRemove(db, {step.key})

\* the store after the first n operations of steps
RECURSIVE RunOps(_, _, _)
RunOps(db, steps, n) ==
  IF n = 0 THEN db ELSE RunOp(RunOps(db, steps, n - 1), steps[n])

\* for (key, value) in adds: one put each (the order of a HashMap is any)
RECURSIVE PutOps(_, _)
PutOps(adds, keys) ==
  IF keys = {} THEN << >>
  ELSE << PutOp(CHOOSE h \in keys : TRUE, adds[CHOOSE h \in keys : TRUE]) >>
       \o PutOps(adds, keys \ {CHOOSE h \in keys : TRUE})

\* for key in removes: one delete each
RECURSIVE DeleteOps(_)
DeleteOps(keys) ==
  IF keys = {} THEN << >>
  ELSE << DeleteOp(CHOOSE h \in keys : TRUE) >>
       \o DeleteOps(keys \ {CHOOSE h \in keys : TRUE})

\* a drain that deletes the removals first
DeletesFirst(change) ==
  DeleteOps(change.removes) \o PutOps(change.adds, DOMAIN change.adds)

\* MemoryTrieMut::apply_change: the store operations of its two loops
apply_change_steps(change) ==
  PutOps(change.adds, DOMAIN change.adds) \o DeleteOps(change.removes)

\* TrieCollection::apply: the store operations of its two loops
TrieCollection_apply_steps(db, counter, change) ==
  PutOps(change.adds, DOMAIN change.adds)
    \o DeleteOps(Freed(ApplyAdds(db, counter, change.adds).counter, change.removes))

\* a drain that is recorded as complete however far its loops got
EveryStep(change, written, removed) ==
  PutOps(change.adds, DOMAIN change.adds) \o DeleteOps(change.removes)

\* RocksMemoryTrieMut::apply: the store operations its two loops complete when
\* the first loop gets through the keys written and the second through removed
RocksMemoryTrieMut_apply_steps(change, written, removed) ==
  PutOps(change.adds, written) \o DeleteOps(removed)

\* how far the loops of RocksMemoryTrieMut::apply can get: the second loop
\* starts only after the first has put every addition
ApplyProgress(change) ==
  { p \in [written : SUBSET DOMAIN change.adds, removed : SUBSET change.removes] :
      p.written # DOMAIN change.adds => p.removed = {} }

\* impl DatabaseHandle for &RocksMemoryTrieMut: the additions of the pending
\* change-set, then the store through the cached handle
RocksView(db, change) ==
  [h \in DOMAIN db \cup DOMAIN change.adds |->
     IF h \in DOMAIN change.adds THEN change.adds[h] ELSE db[h]]

NoRocks == [live |-> FALSE, root |-> EMPTY_TRIE_HASH, change |-> ChangeDefault,
            cached |-> FALSE, ops |-> 0, status |-> "ok", applies |-> 0]

NoDrain == [who |-> "none", result |-> "none", before |-> EmptyMap,
            change |-> ChangeDefault, steps |-> << >>]

RocksInit ==
  /\ rocks_db = EmptyMap
  /\ rocks = NoRocks
  /\ rocks_roots = {}
  /\ drained = NoDrain

\* RocksMemoryTrieMut::new (new_cached, new_uncached) at the empty root or at
\* an applied one
RocksMemoryTrieMut_new(r, cached) ==
  /\ rocks.status = "ok"
  /\ ~ rocks.live
  /\ rocks.applies < MaxCommits
  /\ r \in rocks_roots \cup {EMPTY_TRIE_HASH}
  /\ rocks' = [live |-> TRUE, root |-> r, change |-> ChangeDefault,
               cached |-> cached, ops |-> 0, status |-> "ok",
               applies |-> rocks.applies]
  /\ UNCHANGED << rocks_db, rocks_roots, drained, memVars, gcVars, iterVars, moreVars >>

\* the trie after insert or delete returned r
rocks_after(r) ==
  IF r.ok
  THEN [rocks EXCEPT !.root = r.root, !.change = merge(rocks.change, r.change),
                     !.ops = @ + 1]
  ELSE [rocks EXCEPT !.status = "panicked"]

\* RocksMemoryTrieMut::insert
RocksMemoryTrieMut_insert(key, value) ==
  /\ rocks.status = "ok"
  /\ rocks.live
  /\ rocks.ops < MaxOps
  /\ rocks' = rocks_after(trie_insert(rocks.root, RocksView(rocks_db, rocks.change),
                                      key, value))
  /\ UNCHANGED << rocks_db, rocks_roots, drained, memVars, gcVars, iterVars, moreVars >>

\* RocksMemoryTrieMut::delete
RocksMemoryTrieMut_delete(key) ==
  /\ rocks.status = "ok"
  /\ rocks.live
  /\ rocks.ops < MaxOps
  /\ rocks' = rocks_after(trie_delete(rocks.root, RocksView(rocks_db, rocks.change),
                                      key))
  /\ UNCHANGED << rocks_db, rocks_roots, drained, memVars, gcVars, iterVars, moreVars >>

\* RocksMemoryTrieMut::get
RocksMemoryTrieMut_get(key) ==
  /\ rocks.status = "ok"
  /\ rocks.live
  /\ rocks' = IF trie_get(rocks.root, RocksView(rocks_db, rocks.change), key).ok
              THEN rocks ELSE [rocks EXCEPT !.status = "panicked"]
  /\ UNCHANGED << rocks_db, rocks_roots, drained, memVars, gcVars, iterVars, moreVars >>

\* RocksMemoryTrieMut::apply, which consumes the trie: Ok when both loops get
\* through, Err at the first put or delete that fails
RocksMemoryTrieMut_apply(p) ==
  /\ rocks.status = "ok"
  /\ rocks.live
  /\ p \in ApplyProgress(rocks.change)
  /\ rocks_db' = RunOps(rocks_db,
                        RocksMemoryTrieMut_apply_steps(rocks.change, p.written, p.removed),
                        Cardinality(p.written) + Cardinality(p.removed))
  /\ drained' = [who |-> "rocks",
                 result |-> IF p.written = DOMAIN rocks.change.adds
                               /\ p.removed = rocks.change.removes
                            THEN "Ok" ELSE "Err",
                 before |-> rocks_db,
                 change |-> rocks.change,
                 steps |-> RocksMemoryTrieMut_apply_steps(rocks.change, p.written,
                                                          p.removed)]
  /\ rocks_roots' = IF p.written = DOMAIN rocks.change.adds
                       /\ p.removed = rocks.change.removes
                    THEN rocks_roots \cup {rocks.root} ELSE rocks_roots
  /\ rocks' = [NoRocks EXCEPT !.applies = rocks.applies + 1]
  /\ UNCHANGED << memVars, gcVars, iterVars, moreVars >>

\* TrieCollection::trie_for
trie_for(r) ==
  /\ tc_status = "ok"
  /\ ~ trie.live
  /\ applies < MaxApplies
  /\ r \in committed \cup {EMPTY_TRIE_HASH}
  /\ trie' = [live |-> TRUE, root |-> r, change |-> ChangeDefault, base |-> r,
              ops |-> 0]
  /\ last' = NoApply
  /\ UNCHANGED << tc_database, tc_counter, tc_status, committed, applies, memVars, restVars >>

\* DatabaseTrieMut::insert
DatabaseTrieMut_insert(key, value) ==
  /\ tc_status = "ok"
  /\ trie.live
  /\ trie.ops < MaxOps
  /\ LET r == trie_insert(trie.root, tc_database, key, value)
     IN  IF r.ok
         THEN /\ trie' = [trie EXCEPT !.root = r.root,
                                      !.change = merge(trie.change, r.change),
                                      !.ops = @ + 1]
              /\ tc_status' = "ok"
         ELSE /\ tc_status' = "panicked"
              /\ trie' = trie
  /\ UNCHANGED << tc_database, tc_counter, committed, applies, last, memVars, restVars >>

\* DatabaseTrieMut::delete
DatabaseTrieMut_delete(key) ==
  /\ tc_status = "ok"
  /\ trie.live
  /\ trie.ops < MaxOps
  /\ LET r == trie_delete(trie.root, tc_database, key)
     IN  IF r.ok
         THEN /\ trie' = [trie EXCEPT !.root = r.root,
                                      !.change = merge(trie.change, r.change),
                                      !.ops = @ + 1]
              /\ tc_status' = "ok"
         ELSE /\ tc_status' = "panicked"
              /\ trie' = trie
  /\ UNCHANGED << tc_database, tc_counter, committed, applies, last, memVars, restVars >>

\* DatabaseTrieMut::get
DatabaseTrieMut_get(key) ==
  /\ tc_status = "ok"
  /\ trie.live
  /\ tc_status' = IF trie_get(trie.root, tc_database, key).ok THEN "ok" ELSE "panicked"
  /\ UNCHANGED << tc_database, tc_counter, trie, committed, applies, last, memVars, restVars >>

\* TrieCollection::apply, which consumes the trie
Apply ==
  /\ tc_status = "ok"
  /\ trie.live
  /\ LET s == TrieCollection_apply(tc_database, tc_counter, trie.change)
     IN  /\ tc_database' = s.database
         /\ tc_counter' = s.counter
  /\ committed' = committed \cup {trie.root}
  /\ applies' = applies + 1
  /\ last' = [phase |-> "applied", base |-> trie.base, root |-> trie.root,
              database |-> tc_database, counter |-> tc_counter,
              change |-> trie.change]
  /\ trie' = NoTrie
  /\ UNCHANGED << tc_status, memVars, restVars >>

\* the MerkleIterator before one is made
NoIter == [state |-> "none", it |-> MerkleIterator_empty]

IterInit ==
  /\ iter = NoIter
  /\ yielded = << >>

\* no conversion made yet
NoCalc == [fn |-> "none", state |-> "none"]

CalcInit == calc = NoCalc

\* Trie::empty(database), nothing called yet
NoCall == [op |-> "none"]

LibInit ==
  /\ lib_trie = [database |-> EmptyMap, root |-> EMPTY_TRIE_HASH]
  /\ lib_call = NoCall

\* SecureTrieMut::default(), nothing got yet
NoGot == [key |-> << >>, ret |-> Err]

SecureInit ==
  secure = [trie |-> TrieMut_default, raw |-> TrieMut_default,
            map |-> [k \in SecureKeys |-> None], got |-> NoGot]

IdleThread == [root |-> EMPTY_TRIE_HASH, state |-> "idle", cache |-> EmptyMap,
               inserted |-> {}, next_root |-> EMPTY_TRIE_HASH, ops |-> 0]

NoPin == [state |-> "none", root |-> EMPTY_TRIE_HASH, view |-> EmptyMap,
          before |-> {}, got |-> None]

\* MemoryDatabase::new, and create_empty for every thread
SharedInit ==
  /\ memory_db = EmptyMap
  /\ threads = [w \in Threads |-> IdleThread]
  /\ pinned = NoPin

NoStaged == [op |-> "none", key |-> << >>, value |-> << >>, ret |-> Err]

StagedInit == staged = NoStaged

NoApplying == [running |-> FALSE, root |-> EMPTY_TRIE_HASH, adds |-> EmptyMap,
               adds_left |-> {}, removes_left |-> {}, set |-> None, zero |-> None]

ApplyingInit == applying = NoApplying

NoRead == [key |-> EMPTY_TRIE_HASH, ret |-> None]

\* CachedHandle::new over a store that holds the empty bytes for every hash
CacheInit ==
  /\ handle = [db |-> [k \in CacheKeys |-> << >>], cache |-> Cache_new]
  /\ read_log = [reads |-> [k \in CacheKeys |-> 0],
                 first |-> [k \in CacheKeys |-> None], got |-> NoRead]

NoneYet == [made |-> 0, calls |-> 0, out |-> None]

LateInit ==
  SharedInit /\ StagedInit /\ ApplyingInit /\ CacheInit /\ after_none = NoneYet

RestInit == IterInit /\ RocksInit /\ CalcInit /\ LibInit /\ SecureInit /\ LateInit

\* ------------------------------------------------------------------ specifications

Init == MemInit /\ GcInit /\ RestInit

\* the maps MemoryTrieMut::build is given
Maps == { m \in [Keys -> {None} \cup { Some(v) : v \in Values }] :
            Cardinality(Present(m)) <= MaxEntries }

\* MemoryTrieMut::build, which constructs the trie
Build(m) ==
  /\ status = "ok" /\ root = EMPTY_TRIE_HASH /\ Present(map) = {}
  /\ Present(m) # {}
  /\ LET r == MemoryTrieMut_build(AsMap(m))
     IN  database' = r.database /\ root' = r.root
  /\ map' = m
  /\ UNCHANGED << status, undo, pattern, gcVars, restVars >>

\* the trie holds key, or fewer than n entries
Room(key, n) == map[key] # None \/ Cardinality(Present(map)) < n

Insert(key, value) ==
  /\ Room(key, MaxEntries)
  /\ MemoryTrieMut_insert(key, value)
  /\ UNCHANGED << undo, pattern, gcVars, restVars >>

Delete(key) ==
  MemoryTrieMut_delete(key) /\ UNCHANGED << undo, pattern, gcVars, restVars >>

Get(key) ==
  MemoryTrieMut_get(key) /\ UNCHANGED << undo, pattern, gcVars, restVars >>

Next ==
  \/ \E key \in Keys, value \in Values : Insert(key, value)
  \/ \E key \in Keys : Delete(key)
  \/ \E key \in Keys : Get(key)

\* a MemoryTrieMut, empty at first, under any sequence of insert, delete and get
Spec == Init /\ [][Next]_vars

NextBuild ==
  \/ \E m \in Maps : Build(m)
  \/ \E key \in Keys, value \in Values : Insert(key, value)
  \/ \E key \in Keys : Delete(key)

\* a MemoryTrieMut made by build or empty, under any sequence of insert and delete
SpecBuild == Init /\ [][NextBuild]_vars

\* insert of a key the trie does not hold
FreshInsert(key, value) ==
  /\ map[key] = None
  /\ Room(key, MaxEntries)
  /\ MemoryTrieMut_insert(key, value)
  /\ UNCHANGED << undo, pattern, gcVars, restVars >>

NextFresh == \E key \in Keys, value \in Values : FreshInsert(key, value)

\* a MemoryTrieMut that a set of pairs is inserted into, in any order
SpecFresh == Init /\ [][NextFresh]_vars

\* insert, which remembers the trie it started from when the key is new
UndoInsert(key, value) ==
  /\ Room(key, MaxUndoEntries)
  /\ MemoryTrieMut_insert(key, value)
  /\ undo' = IF map[key] = None
             THEN [phase |-> "inserted", key |-> key, root |-> root,
                   database |-> database]
             ELSE NoUndo
  /\ UNCHANGED << pattern, gcVars, restVars >>

\* delete, which remembers the trie it started from when the key is absent
UndoDelete(key) ==
  /\ MemoryTrieMut_delete(key)
  /\ undo' = IF map[key] = None
             THEN [phase |-> "deleted_absent", key |-> key, root |-> root,
                   database |-> database]
             ELSE IF undo.phase = "inserted" /\ undo.key = key
             THEN [undo EXCEPT !.phase = "inserted_deleted"]
             ELSE NoUndo
  /\ UNCHANGED << pattern, gcVars, restVars >>

NextUndo ==
  \/ \E key \in Keys, value \in Values : UndoInsert(key, value)
  \/ \E key \in Keys : UndoDelete(key)

\* a MemoryTrieMut whose last call or two are compared with the trie before them
SpecUndo == Init /\ [][NextUndo]_vars

\* insert, which after the delete of a key the trie held puts the key back
\* with the value it had
RedoInsert(key, value) ==
  /\ Room(key, MaxUndoEntries)
  /\ MemoryTrieMut_insert(key, value)
  /\ undo' = IF undo.phase = "deleted_present" /\ undo.key = key
                 /\ undo.value = value
             THEN [undo EXCEPT !.phase = "deleted_inserted"]
             ELSE NoUndo
  /\ UNCHANGED << pattern, gcVars, restVars >>

\* delete, which remembers the trie it started from when the trie holds the key
RedoDelete(key) ==
  /\ MemoryTrieMut_delete(key)
  /\ undo' = IF map[key] # None
             THEN [phase |-> "deleted_present", key |-> key, root |-> root,
                   database |-> database, value |-> map[key][1]]
             ELSE NoUndo
  /\ UNCHANGED << pattern, gcVars, restVars >>

NextRedo ==
  \/ \E key \in Keys, value \in Values : RedoInsert(key, value)
  \/ \E key \in Keys : RedoDelete(key)

\* a MemoryTrieMut whose delete of a key, and the insert that puts the key
\* back, are compared with the trie before them
SpecRedo == Init /\ [][NextRedo]_vars

\* an insert of the first phase
DrainInsert(key, value) ==
  /\ pattern = "inserts"
  /\ Room(key, MaxEntries)
  /\ MemoryTrieMut_insert(key, value)
  /\ UNCHANGED << undo, pattern, gcVars, restVars >>

\* a delete of an inserted key, which ends the first phase
DrainDelete(key) ==
  /\ map[key] # None
  /\ MemoryTrieMut_delete(key)
  /\ pattern' = "deletes"
  /\ UNCHANGED << undo, gcVars, restVars >>

NextDrain ==
  \/ \E key \in Keys, value \in Values : DrainInsert(key, value)
  \/ \E key \in Keys : DrainDelete(key)

\* a MemoryTrieMut under inserts followed by deletes of the inserted keys
SpecDrain == Init /\ [][NextDrain]_vars

\* trie_for of the empty root or of a committed one
TrieFor == \E r \in committed \cup {EMPTY_TRIE_HASH} : trie_for(r)

NextGc ==
  \/ TrieFor
  \/ \E key \in GcKeys, value \in Values : DatabaseTrieMut_insert(key, value)
  \/ \E key \in GcKeys : DatabaseTrieMut_delete(key)
  \/ \E key \in GcKeys : DatabaseTrieMut_get(key)
  \/ Apply

\* a TrieCollection whose tries are mutated and applied one after the other
SpecGc == Init /\ [][NextGc]_vars

\* what insert and delete leave of the DatabaseTrieMut and the collection
staged_after(r) ==
  /\ trie' = IF r.ok THEN [trie EXCEPT !.root = r.root,
                                       !.change = merge(trie.change, r.change),
                                       !.ops = @ + 1]
             ELSE trie
  /\ tc_status' = IF r.ok THEN "ok" ELSE "panicked"
  /\ UNCHANGED << tc_database, tc_counter, committed, applies, last, memVars,
                  iterVars, rocksVars, drained, calc, libVars, secure, sharedVars, applying, cacheVars,
                  after_none >>

\* DatabaseTrieMut::insert, on a trie that may have been inserted into before
StagedInsert(key, value) ==
  /\ tc_status = "ok"
  /\ trie.live
  /\ trie.ops < MaxStagedOps
  /\ staged_after(trie_insert(trie.root, tc_database, key, value))
  /\ staged' = [op |-> "insert", key |-> key, value |-> value, ret |-> Err]

\* DatabaseTrieMut::delete, on a trie that may have been inserted into before
StagedDelete(key) ==
  /\ tc_status = "ok"
  /\ trie.live
  /\ trie.ops < MaxStagedOps
  /\ staged_after(trie_delete(trie.root, tc_database, key))
  /\ staged' = NoStaged

\* DatabaseTrieMut::get, remembered when it asks for the key just inserted
StagedGet(key) ==
  /\ tc_status = "ok"
  /\ trie.live
  /\ tc_status' = IF trie_get(trie.root, tc_database, key).ok
                  THEN "ok" ELSE "panicked"
  /\ staged' = IF staged.op = "insert" /\ staged.key = key
               THEN [staged EXCEPT !.op = "get",
                                   !.ret = trie_get(trie.root, tc_database, key)]
               ELSE NoStaged
  /\ UNCHANGED << tc_database, tc_counter, trie, committed, applies, last,
                  memVars, iterVars, rocksVars, drained, calc, libVars, secure,
                  sharedVars, applying, cacheVars, after_none >>

NextStaged ==
  \/ TrieFor
  \/ \E key \in GcKeys, value \in Values : StagedInsert(key, value)
  \/ \E key \in GcKeys : StagedDelete(key)
  \/ \E key \in GcKeys : StagedGet(key)
  \/ Apply

\* a TrieCollection whose tries take several calls before they are applied
SpecStaged == Init /\ [][NextStaged]_vars

\* what a step of TrieCollection::apply leaves alone besides the collection
apply_step_rest ==
  UNCHANGED << tc_status, trie, last, memVars, iterVars, rocksVars, drained, calc,
               libVars, secure, sharedVars, staged, cacheVars, after_none >>

\* TrieCollection::apply is entered: it takes the trie
ApplyEnter ==
  /\ tc_status = "ok"
  /\ trie.live
  /\ ~ applying.running
  /\ applying' = [running |-> TRUE, root |-> trie.root, adds |-> trie.change.adds,
                  adds_left |-> DOMAIN trie.change.adds,
                  removes_left |-> trie.change.removes, set |-> None,
                  zero |-> None]
  /\ trie' = NoTrie
  /\ UNCHANGED << tc_database, tc_counter, tc_status, committed, applies, last,
                  memVars, iterVars, rocksVars, drained, calc, libVars, secure,
                  sharedVars, staged, cacheVars, after_none >>

\* first loop: self.database.set(key, Some(&value))
ApplySet ==
  /\ applying.running
  /\ applying.set = None
  /\ \E key \in applying.adds_left :
       /\ tc_database' = MapPut(tc_database, key, applying.adds[key])
       /\ applying' = [applying EXCEPT !.adds_left = @ \ {key}, !.set = Some(key)]
  /\ UNCHANGED << tc_counter, committed, applies >>
  /\ apply_step_rest

\* first loop: self.counter.increase(key)
ApplyIncrease ==
  /\ applying.running
  /\ applying.set # None
  /\ tc_counter' = increase(tc_counter, applying.set[1])
  /\ applying' = [applying EXCEPT !.set = None]
  /\ UNCHANGED << tc_database, committed, applies >>
  /\ apply_step_rest

\* second loop: let r = self.counter.decrease(key)
ApplyDecrease ==
  /\ applying.running
  /\ applying.adds_left = {}
  /\ applying.set = None
  /\ applying.zero = None
  /\ \E key \in applying.removes_left :
       /\ tc_counter' = decrease(tc_counter, key)
       /\ applying' = [applying EXCEPT
                         !.removes_left = @ \ {key},
                         !.zero = IF freed_at(count(decrease(tc_counter, key), key))
                                  THEN Some(key) ELSE None]
  /\ UNCHANGED << tc_database, committed, applies >>
  /\ apply_step_rest

\* second loop: self.database.set(key, None)
ApplyFree ==
  /\ applying.running
  /\ applying.zero # None
  /\ tc_database' = MapRemove(tc_database, {applying.zero[1]})
  /\ applying' = [applying EXCEPT !.zero = None]
  /\ UNCHANGED << tc_counter, committed, applies >>
  /\ apply_step_rest

\* TrieCollection::apply returns
ApplyReturn ==
  /\ applying.running
  /\ applying.adds_left = {}
  /\ applying.removes_left = {}
  /\ applying.set = None
  /\ applying.zero = None
  /\ applying' = NoApplying
  /\ committed' = committed \cup {applying.root}
  /\ applies' = applies + 1
  /\ UNCHANGED << tc_database, tc_counter >>
  /\ apply_step_rest

\* trie_for, which borrows the collection and so waits for apply to return
ApplyTrieFor ==
  /\ ~ applying.running
  /\ applies < MaxStepApplies
  /\ TrieFor

NextApply ==
  \/ ApplyTrieFor
  \/ \E key \in CommitKeys, value \in Values : DatabaseTrieMut_insert(key, value)
  \/ \E key \in CommitKeys : DatabaseTrieMut_delete(key)
  \/ ApplyEnter
  \/ ApplySet
  \/ ApplyIncrease
  \/ ApplyDecrease
  \/ ApplyFree
  \/ ApplyReturn

\* a TrieCollection whose apply is taken one call on the store or the counter
\* at a time
SpecApply == Init /\ [][NextApply]_vars

cache_rest ==
  UNCHANGED << memVars, gcVars, iterVars, rocksVars, drained, calc, libVars,
               secure, sharedVars, staged, applying, after_none >>

\* CachedHandle::get(key)
CachedGet(key) ==
  /\ handle' = CachedHandle_get(handle, key).handle
  /\ read_log' =
       [reads |-> IF CachedHandle_get(handle, key).read
                  THEN [read_log.reads EXCEPT ![key] = @ + 1]
                  ELSE read_log.reads,
        first |-> IF CachedHandle_get(handle, key).read /\ read_log.reads[key] = 0
                  THEN [read_log.first EXCEPT ![key] = Some(handle.db[key])]
                  ELSE read_log.first,
        got |-> [key |-> key, ret |-> CachedHandle_get(handle, key).ret]]
  /\ cache_rest

\* the store under the handle is written to by its owner
StoreWrite(key, value) ==
  /\ handle.db[key] # value
  /\ handle' = [handle EXCEPT !.db[key] = value]
  /\ UNCHANGED read_log
  /\ cache_rest

NextCache ==
  \/ \E key \in CacheKeys : CachedGet(key)
  \/ \E key \in CacheKeys, value \in Values : StoreWrite(key, value)

\* a CachedHandle under any sequence of gets, over a store that changes
SpecCache == Init /\ [][NextCache]_vars

\* the maps the iterated tries are built from
IterMaps == [IterKeys -> {None} \cup { Some(v) : v \in Values }]

\* MemoryTrieMut::build of the trie to iterate
IterBuild(m) ==
  /\ status = "ok" /\ root = EMPTY_TRIE_HASH /\ Present(map) = {}
  /\ iter.state = "none"
  /\ Present(m) # {}
  /\ LET r == MemoryTrieMut_build(AsMap(m))
     IN  database' = r.database /\ root' = r.root
  /\ map' = m
  /\ UNCHANGED << status, undo, pattern, gcVars, iterVars, rocksVars, drained, moreVars >>

\* the trie hands out its iterator
IterNew ==
  /\ status = "ok"
  /\ iter.state = "none"
  /\ root = EMPTY_TRIE_HASH \/ Resolves(database, root)
  /\ iter' = [state |-> "live", it |-> trie_iter(root, database)]
  /\ UNCHANGED << memVars, gcVars, yielded, rocksVars, drained, moreVars >>

\* one call of next(), until it returns None
IterNext ==
  /\ iter.state = "live"
  /\ LET r == MerkleIterator_next(database, iter.it)
     IN  /\ iter' = [state |-> IF ~ r.ok THEN "panicked"
                               ELSE IF r.out = None THEN "done" ELSE "live",
                     it |-> r.it]
         /\ yielded' = IF r.out = None THEN yielded ELSE Append(yielded, r.out[1])
  /\ UNCHANGED << memVars, gcVars, rocksVars, drained, moreVars >>

NextIter ==
  \/ \E m \in IterMaps : IterBuild(m)
  \/ IterNew
  \/ IterNext

\* a trie made by build, or the empty one, walked by its MerkleIterator
SpecIter == Init /\ [][NextIter]_vars

\* what a call of next() leaves of the iterator and of the pairs yielded so far
called(r) ==
  /\ iter' = [state |-> IF ~ r.ok THEN "panicked"
                        ELSE IF r.out = None THEN "done" ELSE "live",
              it |-> r.it]
  /\ yielded' = IF r.out = None THEN yielded ELSE Append(yielded, r.out[1])
  /\ UNCHANGED << memVars, gcVars, rocksVars, drained, calc, libVars, secure,
                  sharedVars, staged, applying, cacheVars >>

\* one call of next() before it has returned None, counted
IterNextCounted ==
  /\ iter.state = "live"
  /\ after_none' = [after_none EXCEPT !.made = @ + 1]
  /\ called(MerkleIterator_next(database, iter.it))

\* a call of next() after next() has returned None
IterNextAfterNone ==
  /\ iter.state = "done"
  /\ after_none.calls < MaxCallsAfterNone
  /\ after_none' = [made |-> after_none.made + 1, calls |-> after_none.calls + 1,
                    out |-> MerkleIterator_next(database, iter.it).out]
  /\ called(MerkleIterator_next(database, iter.it))

NextOneShot ==
  \/ \E m \in IterMaps : IterBuild(m)
  \/ IterNew
  \/ IterNextCounted
  \/ IterNextAfterNone

\* the caller makes one more call of next() on an iterator that has not
\* returned None
CallsOn ==
  iter.state = "live" /\ after_none' = [after_none EXCEPT !.made = @ + 1]

\* a trie made by build, or the empty one, whose MerkleIterator is called until
\* it returns None and then again; the caller does not stop calling before
\* the first None
SpecOneShot == Init /\ [][NextOneShot]_vars /\ WF_after_none(CallsOn)

\* what MemoryTrieMut::apply_change drained when insert or delete returned r
mem_drained(r) ==
  IF r.ok
  THEN [who |-> "memory", result |-> "Ok", before |-> database,
        change |-> r.change, steps |-> apply_change_steps(r.change)]
  ELSE [NoDrain EXCEPT !.who = "memory"]

\* only one of the three stores is used in a behaviour
MemTurn ==
  /\ drained.who \in {"none", "memory"}
  /\ ~ trie.live /\ applies = 0 /\ ~ rocks.live

RocksTurn ==
  /\ drained.who \in {"none", "rocks"}
  /\ ~ trie.live /\ applies = 0
  /\ drained.who = "none" => root = EMPTY_TRIE_HASH

GcTurn ==
  /\ drained.who = "none" /\ ~ rocks.live
  /\ root = EMPTY_TRIE_HASH
  /\ applies < MaxCommits

CommitInsert(key, value) ==
  /\ MemTurn
  /\ MemoryTrieMut_insert(key, value)
  /\ drained' = mem_drained(trie_insert(root, database, key, value))
  /\ UNCHANGED << undo, pattern, gcVars, iterVars, rocksVars, moreVars >>

CommitDelete(key) ==
  /\ MemTurn
  /\ MemoryTrieMut_delete(key)
  /\ drained' = mem_drained(trie_delete(root, database, key))
  /\ UNCHANGED << undo, pattern, gcVars, iterVars, rocksVars, moreVars >>

RocksNew(cached) ==
  /\ RocksTurn
  /\ \E r \in rocks_roots \cup {EMPTY_TRIE_HASH} : RocksMemoryTrieMut_new(r, cached)

RocksInsert(key, value) ==
  RocksTurn /\ rocks.ops = 0 /\ RocksMemoryTrieMut_insert(key, value)

RocksDelete(key) ==
  RocksTurn /\ rocks.ops = 0 /\ RocksMemoryTrieMut_delete(key)

RocksGet(key) == RocksTurn /\ RocksMemoryTrieMut_get(key)

RocksApply ==
  /\ RocksTurn
  /\ \E p \in ApplyProgress(rocks.change) : RocksMemoryTrieMut_apply(p)

CollectionTrieFor == GcTurn /\ TrieFor

CollectionInsert(key, value) ==
  GcTurn /\ trie.ops = 0 /\ DatabaseTrieMut_insert(key, value)

CollectionDelete(key) ==
  GcTurn /\ trie.ops = 0 /\ DatabaseTrieMut_delete(key)

CollectionApply == GcTurn /\ Apply

NextCommit ==
  \/ \E key \in CommitKeys, value \in Values : CommitInsert(key, value)
  \/ \E key \in CommitKeys : CommitDelete(key)
  \/ \E cached \in BOOLEAN : RocksNew(cached)
  \/ \E key \in CommitKeys, value \in Values : RocksInsert(key, value)
  \/ \E key \in CommitKeys : RocksDelete(key)
  \/ \E key \in CommitKeys : RocksGet(key)
  \/ RocksApply
  \/ CollectionTrieFor
  \/ \E key \in CommitKeys, value \in Values : CollectionInsert(key, value)
  \/ \E key \in CommitKeys : CollectionDelete(key)
  \/ CollectionApply

\* a MemoryTrieMut, a RocksMemoryTrieMut store or a TrieCollection, whose
\* change-sets are drained; a trie takes one insert or delete before its apply
SpecCommit == Init /\ [][NextCommit]_vars

\* the nibbles, paths and byte keys the conversions are given
CodecNibbles == { 0, 1, 15 }

CodecPaths == UNION { [1..n -> CodecNibbles] : n \in 0..MaxPathLen }

CodecBytes == { 0, 1, 16, 171, 255 }

CodecKeys == UNION { [1..n -> CodecBytes] : n \in 0..MaxKeyLen }

\* the values a node refers to its children by: none, a hash, or an inlined
\* leaf (one whose encoding is shorter than 32 bytes)
CodecChildren ==
  { Empty, Hash(Keccak256(Encode(Leaf(<< 1 >>, ValueOfLen(LongValueLen))))) }
    \cup { Full(Leaf(path, value)) :
             path \in { << >>, << 1 >>, << 1, 0 >> },
             value \in { v \in Values : inlinable(Leaf(<< 1, 0 >>, v)) } }

\* the nodes given to the codec: leaves, extensions, and branches with
\* children in the first and the last slot, with and without a value
CodecNodes ==
  { Leaf(path, value) : path \in CodecPaths, value \in Values }
    \cup { Extension(path, child) :
             path \in { << >>, << 1 >>, << 1, 0 >> }, child \in CodecChildren }
    \cup { Branch([i \in 0..15 |-> IF i = 0 THEN x ELSE IF i = 15 THEN y ELSE Empty],
                  additional) :
             x \in CodecChildren, y \in CodecChildren,
             additional \in {None} \cup { Some(v) : v \in Values } }

CodecInputs ==
  { [fn |-> "node", state |-> "input", arg |-> node] : node \in CodecNodes }
    \cup { [fn |-> "key", state |-> "input", arg |-> key] : key \in CodecKeys }
    \cup { [fn |-> "nibble", state |-> "input",
            arg |-> [nibble |-> path, typ |-> typ]] :
             path \in CodecPaths, typ \in { "Leaf", "Extension" } }

CodecInit ==
  MemInit /\ GcInit /\ IterInit /\ RocksInit /\ LibInit /\ SecureInit
    /\ LateInit /\ calc \in CodecInputs

\* MerkleNode::decode(&Rlp::new(&rlp::encode(&node)))
EncodeDecodeNode ==
  /\ calc.fn = "node" /\ calc.state = "input"
  /\ calc' = [fn |-> "node", state |-> "done", arg |-> calc.arg,
              enc |-> Encode(calc.arg), out |-> Decode(Encode(calc.arg))]
  /\ UNCHANGED << memVars, gcVars, iterVars, rocksVars, drained, libVars, secure, lateVars >>

\* into_key(&from_key(&key))
FromIntoKey ==
  /\ calc.fn = "key" /\ calc.state = "input"
  /\ calc' = [fn |-> "key", state |-> "done", arg |-> calc.arg,
              enc |-> from_key(calc.arg), out |-> into_key(from_key(calc.arg))]
  /\ UNCHANGED << memVars, gcVars, iterVars, rocksVars, drained, libVars, secure, lateVars >>

\* nibble::decode of what nibble::encode appended to the stream
EncodeDecodeNibble ==
  /\ calc.fn = "nibble" /\ calc.state = "input"
  /\ calc' = [fn |-> "nibble", state |-> "done", arg |-> calc.arg,
              enc |-> nibble_encode(calc.arg.nibble, calc.arg.typ),
              out |-> nibble_decode(nibble_encode(calc.arg.nibble, calc.arg.typ))]
  /\ UNCHANGED << memVars, gcVars, iterVars, rocksVars, drained, libVars, secure, lateVars >>

NextCodec ==
  \/ EncodeDecodeNode
  \/ FromIntoKey
  \/ EncodeDecodeNibble

\* a node, a key or a path taken through its conversion and back
SpecCodec == CodecInit /\ [][NextCodec]_vars

\* Trie::get
LibGet(key) ==
  /\ lib_call' = [op |-> "get", key |-> key, root |-> lib_trie.root,
                  looked |-> Trie_get_looked(lib_trie.database, lib_trie.root, key),
                  ret |-> Trie_get(lib_trie.database, lib_trie.root, key),
                  before |-> lib_trie.database]
  /\ UNCHANGED << lib_trie, calc, secure, lateVars, memVars, gcVars, iterVars, rocksVars, drained >>

\* Trie::insert when is_empty(): lines 408-420 set the new leaf and read nothing
LibInsertEmpty(key, value) ==
  /\ lib_trie.root = EMPTY_TRIE_HASH
  /\ lib_trie' = Trie_insert_empty(lib_trie.database, key, value)
  /\ lib_call' = [op |-> "insert", key |-> key, root |-> lib_trie.root,
                  looked |-> {}, ret |-> None, before |-> lib_trie.database]
  /\ UNCHANGED << calc, secure, lateVars, memVars, gcVars, iterVars, rocksVars, drained >>

\* Trie::remove when is_empty(): returns at once
LibRemoveEmpty(key) ==
  /\ lib_trie.root = EMPTY_TRIE_HASH
  /\ lib_call' = [op |-> "remove", key |-> key, root |-> lib_trie.root,
                  looked |-> {}, ret |-> None, before |-> lib_trie.database]
  /\ UNCHANGED << lib_trie, calc, secure, lateVars, memVars, gcVars, iterVars, rocksVars, drained >>

\* the iterator of the empty trie and its first next(): MerkleIterator::empty
\* holds no value, and next() returns None before it decodes or reads
LibIterEmpty ==
  /\ lib_trie.root = EMPTY_TRIE_HASH
  /\ lib_call' = [op |-> "iter", key |-> << >>, root |-> lib_trie.root,
                  looked |-> {},
                  ret |-> MerkleIterator_next(lib_trie.database,
                                              trie_iter(lib_trie.root,
                                                        lib_trie.database)).out,
                  before |-> lib_trie.database]
  /\ UNCHANGED << lib_trie, calc, secure, lateVars, memVars, gcVars, iterVars, rocksVars, drained >>

\* Trie::build
LibBuild(m) ==
  /\ lib_trie.root = EMPTY_TRIE_HASH
  /\ lib_call = NoCall
  /\ Present(m) # {}
  /\ lib_trie' = Trie_build(lib_trie.database, AsMap(m))
  /\ lib_call' = [op |-> "build", key |-> << >>, root |-> lib_trie.root,
                  looked |-> {}, ret |-> None, before |-> lib_trie.database]
  /\ UNCHANGED << calc, secure, lateVars, memVars, gcVars, iterVars, rocksVars, drained >>

\* Trie::insert into a trie whose root is a Leaf
LibInsertLeaf(key, value) ==
  /\ lib_trie.root # EMPTY_TRIE_HASH
  /\ Resolves(lib_trie.database, lib_trie.root)
  /\ Decode(lib_trie.database[lib_trie.root]).type = "Leaf"
  /\ lib_trie' = Trie_insert_leaf(lib_trie.database,
                                  Decode(lib_trie.database[lib_trie.root]),
                                  key, value)
  /\ lib_call' = [op |-> "insert", key |-> key, root |-> lib_trie.root,
                  looked |-> {lib_trie.root}, ret |-> None,
                  before |-> lib_trie.database]
  /\ UNCHANGED << calc, secure, lateVars, memVars, gcVars, iterVars, rocksVars, drained >>

NextLibBuild ==
  \/ \E m \in Maps : LibBuild(m)
  \/ \E key \in Keys, value \in Values : LibInsertEmpty(key, value)
  \/ \E key \in Keys, value \in Values : LibInsertLeaf(key, value)
  \/ \E key \in Keys : LibGet(key)

\* a Trie of lib.rs made by build, or by insert into the empty trie and into
\* the trie of one leaf
SpecLibBuild == Init /\ [][NextLibBuild]_vars

NextLib ==
  \/ \E key \in Keys : LibGet(key)
  \/ \E key \in Keys, value \in Values : LibInsertEmpty(key, value)
  \/ \E key \in Keys : LibRemoveEmpty(key)
  \/ LibIterEmpty

\* a Trie of lib.rs, empty at first: the calls on the empty trie, and get on
\* the trie an insert has made
SpecLib == Init /\ [][NextLib]_vars

\* What a thread holds once its operation has returned r and has turned its
\* Change into a ChangeSet: drain(database, nofree) is unimplemented!() unless
\* nofree, and sets the inserted hashes otherwise.
thread_started(t, r, nofree) ==
  IF ~r.ok \/ ~nofree
  THEN [t EXCEPT !.state = "panicked"]
  ELSE [t EXCEPT !.state = "draining", !.cache = r.change.adds,
                 !.inserted = DOMAIN r.change.adds, !.next_root = r.root,
                 !.ops = t.ops + 1]

\* the operations started so far
ThreadOps == threads[1].ops + threads[2].ops

\* insert on the Trie thread w makes by create_trie of the root thread from has
\* drained: its reads go through the guard
ThreadInsert(w, from, key, value, nofree) ==
  /\ threads[w].state = "idle"
  /\ threads[from].state = "idle"
  /\ ThreadOps < MaxThreadOps
  /\ threads' = [threads EXCEPT ![w] =
        thread_started(threads[w],
                       trie_insert(threads[from].root, memory_db, key, value),
                       nofree)]
  /\ UNCHANGED << memory_db, pinned, memVars, gcVars, iterVars, rocksVars,
                  drained, calc, libVars, secure, after25 >>

\* remove on the Trie thread w makes by create_trie of the root thread from has
\* drained
ThreadRemove(w, from, key, nofree) ==
  /\ threads[w].state = "idle"
  /\ threads[from].state = "idle"
  /\ ThreadOps < MaxThreadOps
  /\ threads' = [threads EXCEPT ![w] =
        thread_started(threads[w], trie_delete(threads[from].root, memory_db, key),
                       nofree)]
  /\ UNCHANGED << memory_db, pinned, memVars, gcVars, iterVars, rocksVars,
                  drained, calc, libVars, secure, after25 >>

\* one turn of the loop of ChangeSet::drain in thread w: one database.set, under
\* the lock
ThreadDrainSet(w) ==
  /\ threads[w].state = "draining"
  /\ \E h \in threads[w].inserted :
       /\ memory_db' = MemoryDatabaseGuard_set(memory_db, h, threads[w].cache[h])
       /\ threads' = [threads EXCEPT ![w].inserted = @ \ {h}]
  /\ UNCHANGED << pinned, memVars, gcVars, iterVars, rocksVars, drained, calc,
                  libVars, secure, after25 >>

\* ChangeSet::drain returns in thread w: its Trie is at the new root
ThreadDrained(w) ==
  /\ threads[w].state = "draining"
  /\ threads[w].inserted = {}
  /\ threads' = [threads EXCEPT ![w].state = "idle", ![w].root = threads[w].next_root,
                                ![w].cache = EmptyMap]
  /\ UNCHANGED << memory_db, pinned, memVars, gcVars, iterVars, rocksVars,
                  drained, calc, libVars, secure, after25 >>

\* MemoryDatabase::create_trie(R) with the root R thread w has drained
PinRoot(w) ==
  /\ pinned.state = "none"
  /\ threads[w].state = "idle"
  /\ threads[w].root # EMPTY_TRIE_HASH
  /\ pinned' = [state |-> "pinned", root |-> threads[w].root,
                view |-> [h \in HashesOfRoot(threads[w].root, memory_db) |->
                            MemoryDatabaseGuard_get(memory_db, h)],
                before |-> DOMAIN memory_db, got |-> None]
  /\ UNCHANGED << memory_db, threads, memVars, gcVars, iterVars, rocksVars,
                  drained, calc, libVars, secure, after25 >>

\* a guard-level get of the pinned Trie, under the lock
PinnedGet(h) ==
  /\ pinned.state = "pinned"
  /\ h \in DOMAIN pinned.view
  /\ pinned' = [pinned EXCEPT
                  !.got = Some([hash |-> h,
                                ret |-> MemoryDatabaseGuard_get(memory_db, h)])]
  /\ UNCHANGED << memory_db, threads, memVars, gcVars, iterVars, rocksVars,
                  drained, calc, libVars, secure, after25 >>

NextShared ==
  \/ \E w \in Threads, from \in Threads, key \in CommitKeys, value \in Values,
        nofree \in BOOLEAN :
       ThreadInsert(w, from, key, value, nofree)
  \/ \E w \in Threads, from \in Threads, key \in CommitKeys, nofree \in BOOLEAN :
       ThreadRemove(w, from, key, nofree)
  \/ \E w \in Threads : ThreadDrainSet(w)
  \/ \E w \in Threads : ThreadDrained(w)
  \/ \E w \in Threads : PinRoot(w)
  \/ \E h \in DOMAIN pinned.view : PinnedGet(h)

\* threads that insert into and remove from tries over one MemoryDatabase, each
\* get and set of theirs a step of its own, beside a Trie pinned to a root
SpecShared == Init /\ [][NextShared]_vars

\* SecureTrieMut::insert, beside TrieMut::insert of the digest on the raw trie
SecureInsert(key, value) ==
  /\ secure.trie.status = "ok"
  /\ secure' = [trie |-> SecureTrieMut_insert(secure.trie, key, value),
                raw |-> TrieMut_insert(secure.raw, Keccak256_digest(key), value),
                map |-> IF SecureTrieMut_insert(secure.trie, key, value).status = "ok"
                        THEN [secure.map EXCEPT ![key] = Some(value)]
                        ELSE secure.map,
                got |-> NoGot]
  /\ UNCHANGED << calc, libVars, lateVars, memVars, gcVars, iterVars, rocksVars, drained >>

\* SecureTrieMut::delete, beside TrieMut::delete of the digest on the raw trie
SecureDelete(key) ==
  /\ secure.trie.status = "ok"
  /\ secure' = [trie |-> SecureTrieMut_delete(secure.trie, key),
                raw |-> TrieMut_delete(secure.raw, Keccak256_digest(key)),
                map |-> IF SecureTrieMut_delete(secure.trie, key).status = "ok"
                        THEN [secure.map EXCEPT ![key] = None]
                        ELSE secure.map,
                got |-> NoGot]
  /\ UNCHANGED << calc, libVars, lateVars, memVars, gcVars, iterVars, rocksVars, drained >>

\* SecureTrieMut::get
SecureGet(key) ==
  /\ secure.trie.status = "ok"
  /\ secure' = [secure EXCEPT
                  !.got = [key |-> key, ret |-> SecureTrieMut_get(secure.trie, key)],
                  !.trie.status = IF SecureTrieMut_get(secure.trie, key).ok
                                  THEN "ok" ELSE "panicked"]
  /\ UNCHANGED << calc, libVars, lateVars, memVars, gcVars, iterVars, rocksVars, drained >>

NextSecure ==
  \/ \E key \in SecureKeys, value \in Values : SecureInsert(key, value)
  \/ \E key \in SecureKeys : SecureDelete(key)
  \/ \E key \in SecureKeys : SecureGet(key)

\* a SecureTrieMut over a MemoryTrieMut, empty at first, under any sequence of
\* insert, delete and get
SpecSecure == Init /\ [][NextSecure]_vars

\* ------------------------------------------------------------------ nodes reachable from a root

\* the node a value refers to (a hash the store lacks refers to no node)
child_node(merkle, db) ==
  CASE merkle.type = "Empty" -> None
    [] merkle.type = "Full" -> Some(merkle.node)
    [] merkle.type = "Hash" ->
         IF Resolves(db, merkle.hash) THEN Some(Decode(db[merkle.hash])) ELSE None

\* Every node under node, node included, has the shape the collapse rules keep:
\* a Branch has two live entries or more, an Extension has a non-empty path and
\* a Branch as its child.
RECURSIVE Collapsed(_, _)
CollapsedValue(merkle, db) ==
  \A n \in 1..Len(child_node(merkle, db)) : Collapsed(child_node(merkle, db)[n], db)

Collapsed(node, db) ==
  CASE node.type = "Leaf" -> TRUE
    [] node.type = "Extension" ->
         /\ Len(node.nibble) > 0
         /\ node.value.type # "Empty"
         /\ \A n \in 1..Len(child_node(node.value, db)) :
              child_node(node.value, db)[n].type = "Branch"
         /\ CollapsedValue(node.value, db)
    [] node.type = "Branch" ->
         /\ nonempty_node_count(node.nodes, node.additional) >= 2
         /\ \A i \in 0..15 : CollapsedValue(node.nodes[i], db)

\* Every hash under node is in the store, and so is every hash under the
\* nodes those hashes name.
RECURSIVE AllResolve(_, _)
ValueResolves(merkle, db) ==
  CASE merkle.type = "Empty" -> TRUE
    [] merkle.type = "Full" -> AllResolve(merkle.node, db)
    [] merkle.type = "Hash" ->
         Resolves(db, merkle.hash) /\ AllResolve(Decode(db[merkle.hash]), db)

AllResolve(node, db) ==
  CASE node.type = "Leaf" -> TRUE
    [] node.type = "Extension" -> ValueResolves(node.value, db)
    [] node.type = "Branch" -> \A i \in 0..15 : ValueResolves(node.nodes[i], db)

\* the same of the trie at a root
RootResolves(root_hash, db) ==
  root_hash = EMPTY_TRIE_HASH
    \/ (Resolves(db, root_hash) /\ AllResolve(Decode(db[root_hash]), db))

\* Every child under node is referred to as the inlining rule says: a Full
\* child encodes to fewer than 32 bytes; a Hash child encodes to 32 bytes or
\* more and, if stored is set, is in the store under the hash of its encoding.
RECURSIVE Inlined(_, _, _)
InlinedValue(merkle, db, stored) ==
  CASE merkle.type = "Empty" -> TRUE
    [] merkle.type = "Full" ->
         RlpLen(Encode(merkle.node)) < InlineThreshold
           /\ Inlined(merkle.node, db, stored)
    [] merkle.type = "Hash" ->
         IF Resolves(db, merkle.hash)
         THEN /\ RlpLen(db[merkle.hash]) >= InlineThreshold
              /\ merkle.hash = Keccak256(db[merkle.hash])
              /\ Inlined(Decode(db[merkle.hash]), db, stored)
         ELSE ~ stored

Inlined(node, db, stored) ==
  CASE node.type = "Leaf" -> TRUE
    [] node.type = "Extension" -> InlinedValue(node.value, db, stored)
    [] node.type = "Branch" ->
         \A i \in 0..15 : InlinedValue(node.nodes[i], db, stored)

\* the root node of the trie at a root the store holds
root_node(root_hash, db) == Decode(db[root_hash])

\* The root Branch old has two live entries, and the entry of the path nibble
\* holds that one key only: the branch value, or a leaf with the rest of the
\* path.
SoleEntryOfTwo(old, nibble, db) ==
  /\ old.type = "Branch"
  /\ nonempty_node_count(old.nodes, old.additional) = 2
  /\ IF Len(nibble) = 0 THEN old.additional # None
     ELSE /\ child_node(old.nodes[nibble[1]], db) # None
          /\ child_node(old.nodes[nibble[1]], db)[1].type = "Leaf"
          /\ child_node(old.nodes[nibble[1]], db)[1].nibble = Drop(nibble, 1)

\* The node new is what is left of the Branch old without the entry of the
\* path nibble: not a Branch, and a Leaf or an Extension whose path begins with
\* the selector of the entry that is left (a Leaf with the empty path when the
\* branch value is left).
CollapsedOnto(old, nibble, new) ==
  /\ new.type # "Branch"
  /\ \A i \in 0..15 :
       (old.nodes[i].type # "Empty" /\ (Len(nibble) = 0 \/ nibble[1] # i)) =>
         (Len(new.nibble) > 0 /\ new.nibble[1] = i)
  /\ (Len(nibble) > 0 /\ old.additional # None) =>
       new = Leaf(<< >>, old.additional[1])

\* Every Branch under node, node included, has two live entries or more.
RECURSIVE BranchesLive(_, _)
BranchesLiveValue(merkle, db) ==
  \A n \in 1..Len(child_node(merkle, db)) : BranchesLive(child_node(merkle, db)[n], db)

BranchesLive(node, db) ==
  CASE node.type = "Leaf" -> TRUE
    [] node.type = "Extension" -> BranchesLiveValue(node.value, db)
    [] node.type = "Branch" ->
         /\ nonempty_node_count(node.nodes, node.additional) >= 2
         /\ \A i \in 0..15 : BranchesLiveValue(node.nodes[i], db)

\* ------------------------------------------------------------------ claims

\* C1: after any sequence of insert and delete calls on a MemoryTrieMut that
\* starts empty, get(k) returns, for every key k, the value of the last insert
\* of k that no delete of k followed, and None for every other key.
C1_GetReturnsLastInsert ==
  status = "ok" =>
    \A k \in Keys : trie_get(root, database, k) = [ok |-> TRUE, value |-> map[k]]

\* C2: the pairs of a set, inserted into an empty trie in any order, yield the
\* root that build yields for the set.
C2_InsertsYieldBuildRoot ==
  status = "ok" /\ root = trie_build(AsMap(map)).root

\* C3: insert(k, v) of a key k the trie at root R does not hold, followed by
\* delete(k), yields root R again, for every value v.
C3_InsertDeleteRestoresRoot ==
  undo.phase = "inserted_deleted" => status = "ok" /\ root = undo.root

\* C4: after any sequence of insert and delete calls on a MemoryTrieMut that
\* starts empty, the database is the database MemoryTrieMut::build makes of the
\* resulting map: no stale node, no missing node, and empty for the empty map.
C4_DatabaseIsBuildDatabase ==
  status = "ok" => database = MemoryTrieMut_build(AsMap(map)).database

\* C5: insert(k, v) of a key k the trie does not hold, followed by delete(k),
\* leaves the database exactly as it was before the two calls.
C5_InsertDeleteRestoresDatabase ==
  undo.phase = "inserted_deleted" => status = "ok" /\ database = undo.database

\* C6: the trie without entries has root EMPTY_TRIE_HASH, and any sequence of
\* inserts followed by the delete of every inserted key ends at that root.
C6_DrainedTrieIsEmpty ==
  status = "ok" /\ (Present(map) = {} => root = EMPTY_TRIE_HASH)

\* C7: delete(k) of a key k the trie does not hold leaves the root unchanged,
\* also when k is a proper prefix or an extension of a key it holds.
C7_DeleteAbsentKeepsRoot ==
  undo.phase = "deleted_absent" => status = "ok" /\ root = undo.root

\* C8: when a trie taken by trie_for(A) of a committed root A has been mutated
\* to another root B and applied, get(k) against root A still resolves and
\* returns what it returned before, for every key k.
C8_OlderRootStillReads ==
  (last.phase = "applied" /\ last.base # EMPTY_TRIE_HASH /\ last.root # last.base) =>
    \A k \in GcKeys :
       trie_get(last.base, last.database, k).ok =>
         trie_get(last.base, tc_database, k) = trie_get(last.base, last.database, k)

\* C9: TrieCollection::apply writes every added hash to the store and raises
\* its count by one; it lowers the count of every removed hash by one, and it
\* deletes a removed hash from the store if and only if that count is then zero.
C9_ApplyCountsReferences ==
  last.phase = "applied" =>
    /\ \A h \in DOMAIN last.change.adds :
         /\ Resolves(tc_database, h)
         /\ tc_database[h] = last.change.adds[h]
         /\ count(tc_counter, h) = count(last.counter, h) + 1
    /\ \A h \in last.change.removes :
         /\ count(tc_counter, h) = count(last.counter, h) - 1
         /\ Resolves(last.database, h)
         /\ Resolves(tc_database, h) <=> count(tc_counter, h) # 0

\* an apply that has added hashes and has removed a hash that two earlier
\* applies had added, so that its count stays above zero and the store keeps it
C9_AppliedAddsAndRemoves ==
  /\ last.phase = "applied"
  /\ DOMAIN last.change.adds # {}
  /\ \E h \in last.change.removes :
       count(last.counter, h) = 2 /\ count(tc_counter, h) = 1 /\ Resolves(tc_database, h)

\* C10: in every node reachable from the root after any sequence of build,
\* insert and delete, a Branch has two live entries or more among its children
\* and its value, and an Extension has a non-empty path and a child that is
\* neither Empty, nor a Leaf, nor an Extension.
C10_ReachableNodesCollapsed ==
  (status = "ok" /\ root # EMPTY_TRIE_HASH /\ Resolves(database, root)) =>
    Collapsed(Decode(database[root]), database)

\* the pairs the trie holds
StoredPairs == { << k, map[k][1] >> : k \in Present(map) }

\* C11: once the MerkleIterator started at the root has returned None, the
\* pairs it yielded are exactly the pairs stored in the trie, each yielded
\* exactly once.
C11_IteratorYieldsStoredPairs ==
  iter.state = "done" =>
    /\ { yielded[i] : i \in 1..Len(yielded) } = StoredPairs
    /\ Len(yielded) = Cardinality(StoredPairs)

\* a is before b in the lexicographic order of nibble paths; a proper prefix
\* is before the longer path
NibbleLess(a, b) ==
  \/ Len(a) < Len(b) /\ SubSeq(b, 1, Len(a)) = a
  \/ \E i \in 1..Min(Len(a), Len(b)) :
       /\ SubSeq(a, 1, i - 1) = SubSeq(b, 1, i - 1)
       /\ a[i] < b[i]

\* C12: the keys the MerkleIterator has yielded so far are strictly ascending
\* in the lexicographic order of their nibble paths.
C12_IteratorYieldsInPathOrder ==
  iter.state \in {"live", "done"} =>
    \A i, j \in 1..Len(yielded) :
      i < j => NibbleLess(from_key(yielded[i][1]), from_key(yielded[j][1]))

\* C13: get gives not-found only for a lookup whose path resolves in the
\* store: when a hash on the path of key k (the root or a Hash child) is not
\* in the store, neither get of ops/get.rs nor Trie::get returns None.
C13_GetNeverGuessesNotFound ==
  status = "ok" =>
    \A k \in Keys :
      ~ trie_get(root, database, k).ok =>
        /\ trie_get(root, database, k) = Err
        /\ Trie_get(database, root, k) # None

\* every put of the steps is before every delete
PutsBeforeDeletes(steps) ==
  \A i, j \in 1..Len(steps) :
    (steps[i].op = "delete" /\ steps[j].op = "put") => j < i

\* the store the last drain of apply_change or RocksMemoryTrieMut::apply wrote to
DrainedStore == IF drained.who = "memory" THEN database ELSE rocks_db

\* what C14 says of apply_change and RocksMemoryTrieMut::apply: the steps put
\* every addition before they delete any removal and make the store; after Ok
\* every removed hash is absent and every added hash is present
DrainOrdered ==
  /\ drained.who # "none" =>
       /\ PutsBeforeDeletes(drained.steps)
       /\ (\E i \in 1..Len(drained.steps) : drained.steps[i].op = "delete") =>
            \A h \in DOMAIN drained.change.adds :
              \E i \in 1..Len(drained.steps) :
                drained.steps[i] = PutOp(h, drained.change.adds[h])
  /\ drained.result = "Ok" =>
       /\ DrainedStore = RunOps(drained.before, drained.steps, Len(drained.steps))
       /\ \A h \in drained.change.removes : ~ Resolves(DrainedStore, h)
       /\ \A h \in DOMAIN drained.change.adds \ drained.change.removes :
            Resolves(DrainedStore, h) /\ DrainedStore[h] = drained.change.adds[h]

\* the same of TrieCollection::apply, but for the removed hashes
CollectionDrainOrdered ==
  last.phase = "applied" =>
    /\ PutsBeforeDeletes(
         TrieCollection_apply_steps(last.database, last.counter, last.change))
    /\ tc_database =
         RunOps(last.database,
                TrieCollection_apply_steps(last.database, last.counter, last.change),
                Len(TrieCollection_apply_steps(last.database, last.counter,
                                               last.change)))
    /\ \A h \in DOMAIN last.change.adds \ last.change.removes :
         Resolves(tc_database, h) /\ tc_database[h] = last.change.adds[h]

\* C14 (as stated): a drain writes every addition before it deletes any
\* removal, in apply_change, RocksMemoryTrieMut::apply and
\* TrieCollection::apply; after a successful drain every removed hash is
\* absent and every added hash that is not removed is present.
C14_RemovedAbsentAfterDrain ==
  /\ DrainOrdered
  /\ CollectionDrainOrdered
  /\ last.phase = "applied" =>
       \A h \in last.change.removes : ~ Resolves(tc_database, h)

\* C14 (amended): the same, except that after TrieCollection::apply a removed
\* hash is absent exactly when its reference count has come down to zero.
C14_AdditionsBeforeRemovals ==
  /\ DrainOrdered
  /\ CollectionDrainOrdered
  /\ last.phase = "applied" =>
       \A h \in last.change.removes :
         ~ Resolves(tc_database, h) <=> count(tc_counter, h) = 0

\* a TrieCollection::apply that removes a hash another reference keeps
C14_RemovedHashKept ==
  /\ last.phase = "applied"
  /\ DOMAIN last.change.adds # {}
  /\ \E h \in last.change.removes : Resolves(tc_database, h)

\* C15 (as stated): RocksMemoryTrieMut::apply returns Ok with every addition
\* written and every removal deleted, or Err with the store as it was before
\* the call.
C15_ErrLeavesStoreUntouched ==
  drained.who = "rocks" =>
    /\ drained.result = "Ok" =>
         rocks_db = apply_change(drained.before, drained.change)
    /\ drained.result = "Err" => rocks_db = drained.before

\* C15 (amended): RocksMemoryTrieMut::apply returns Ok with every addition
\* written and every removal deleted, or Err at the first put or delete that
\* fails; on Err the puts and deletes completed before the failing one stay in
\* the store: some of the additions and no removal, or every addition and
\* some of the removals.
C15_ErrKeepsCompletedSteps ==
  drained.who = "rocks" =>
    /\ drained.result = "Ok" =>
         rocks_db = apply_change(drained.before, drained.change)
    /\ drained.result = "Err" =>
         /\ Len(drained.steps) <
              Cardinality(DOMAIN drained.change.adds)
                + Cardinality(drained.change.removes)
         /\ rocks_db = RunOps(drained.before, drained.steps, Len(drained.steps))
         /\ \A i \in 1..Len(drained.steps) :
              \/ /\ drained.steps[i].op = "put"
                 /\ drained.steps[i].key \in DOMAIN drained.change.adds
              \/ /\ drained.steps[i].op = "delete"
                 /\ drained.steps[i].key \in drained.change.removes
                 /\ \A h \in DOMAIN drained.change.adds : Resolves(rocks_db, h)

\* an apply that failed after it had changed the store
C15_FailedAfterWrites ==
  /\ drained.who = "rocks"
  /\ drained.result = "Err"
  /\ rocks_db # drained.before

\* C16: decoding the encoding of a MerkleNode gives the node back, for leaves,
\* extensions and branches with or without a value, empty values and inlined
\* children included.
C16_NodeRoundTrip ==
  (calc.fn = "node" /\ calc.state = "done") => calc.out = calc.arg

\* C17: from_key gives two nibbles for each byte of the key, the high nibble
\* first, and into_key of them gives the key back.
C17_NibbleRoundTrip ==
  (calc.fn = "key" /\ calc.state = "done") =>
    /\ Len(calc.enc) = 2 * Len(calc.arg)
    /\ \A i \in 1..Len(calc.arg) :
         /\ calc.enc[2 * i - 1] = calc.arg[i] \div 16
         /\ calc.enc[2 * i] = calc.arg[i] % 16
    /\ calc.out = calc.arg

\* a key of two bytes, each with two different nibbles, taken there and back
C17_TwoByteKeyConverted ==
  /\ calc.fn = "key" /\ calc.state = "done"
  /\ calc.arg = << 16, 171 >>
  /\ calc.enc = << 1, 0, 10, 11 >>

\* C18: nibble::decode of nibble::encode(p, t) is (p, t); in the first encoded
\* byte the 0x10 bit is set exactly when p has an odd length and the 0x20 bit
\* exactly when t is Leaf, and for an odd length the low nibble of the first
\* byte is the first nibble of p.
C18_HexPrefixRoundTrip ==
  (calc.fn = "nibble" /\ calc.state = "done") =>
    /\ calc.out = calc.arg
    /\ ((calc.enc[1] \div 16) % 2 = 1) <=> (Len(calc.arg.nibble) % 2 = 1)
    /\ ((calc.enc[1] \div 32) % 2 = 1) <=> (calc.arg.typ = "Leaf")
    /\ Len(calc.arg.nibble) % 2 = 1 => calc.enc[1] % 16 = calc.arg.nibble[1]

\* a Leaf path of odd length taken there and back
C18_OddLeafPathConverted ==
  /\ calc.fn = "nibble" /\ calc.state = "done"
  /\ calc.arg = [nibble |-> << 15, 0, 1 >>, typ |-> "Leaf"]
  /\ calc.enc = << 63, 1 >>

C20_SecureTrieHashesKeys ==
  /\ secure.trie.database = secure.raw.database
  /\ secure.trie.root = secure.raw.root
  /\ secure.trie.status = "ok"
  /\ \A k \in SecureKeys :
       /\ SecureTrieMut_get(secure.trie, k) = [ok |-> TRUE, value |-> secure.map[k]]
       /\ TrieMut_get(secure.raw, Keccak256_digest(k)) =
            [ok |-> TRUE, value |-> secure.map[k]]
  /\ secure.got # NoGot =>
       secure.got.ret = [ok |-> TRUE, value |-> secure.map[secure.got.key]]

\* a get of a key that holds a short value, in a trie of three keys
C20_GotLastInserted ==
  /\ secure.got # NoGot
  /\ secure.got.ret.value = Some(ValueOfLen(1))
  /\ Cardinality(Present(secure.map)) >= 3
  /\ secure.trie.root = secure.raw.root

\* C21: after any sequence of insert and delete on a MemoryTrieMut, every
\* hash reachable from the root is in the database, also where several
\* positions hold the same sub-node under one hash, and no call hits a missing
\* node.
C21_ReachableHashesResolve ==
  status = "ok" /\ RootResolves(root, database)

\* C22: in every node that build, insert or delete has produced, a child is
\* Full exactly when its encoding is shorter than 32 bytes and Hash otherwise,
\* and every child referred to by Hash is in the store once the change-set is
\* drained.
C22_ChildrenFollowInliningRule ==
  status = "ok" =>
    (root # EMPTY_TRIE_HASH =>
       /\ Resolves(database, root)
       /\ Inlined(Decode(database[root]), database, TRUE))

\* C23: delete(k) of a key k the trie does not hold returns a change-set with
\* no addition and no removal, and the store after the change-set is applied
\* is the store before the delete.
C23_DeleteAbsentChangesNothing ==
  undo.phase = "deleted_absent" =>
    /\ status = "ok"
    /\ trie_delete(undo.root, undo.database, undo.key).change = ChangeDefault
    /\ database = undo.database

\* C24: for a trie that holds key k with value v, delete(k) followed by
\* insert(k, v) restores the root; when the delete takes one of the two live
\* entries of a Branch, what is left at its place is not a Branch but a Leaf or
\* an Extension whose path begins with the selector of the other entry.
C24_DeleteInsertRestoresRoot ==
  /\ undo.phase = "deleted_inserted" => status = "ok" /\ root = undo.root
  /\ (undo.phase = "deleted_present"
        /\ SoleEntryOfTwo(root_node(undo.root, undo.database), from_key(undo.key),
                          undo.database)) =>
       /\ status = "ok"
       /\ root # EMPTY_TRIE_HASH
       /\ Resolves(database, root)
       /\ CollapsedOnto(root_node(undo.root, undo.database), from_key(undo.key),
                        root_node(root, database))

\* C25: under any interleaving of the guard-level get and set calls of
\* concurrent insert and remove operations over one MemoryDatabase, every get
\* against a root committed before returns what it returned before they began.
C25_PinnedReadsUnchanged ==
  /\ \A h \in DOMAIN pinned.view :
       MemoryDatabaseGuard_get(memory_db, h) = pinned.view[h]
  /\ pinned.got # None => pinned.got[1].ret = pinned.view[pinned.got[1].hash]

\* a get of the pinned Trie that returns a node, after sets by other operations
\* and while a thread is in the middle of its drain
C25_PinnedReadAmidDrain ==
  /\ pinned.got # None
  /\ pinned.got[1].ret # None
  /\ DOMAIN memory_db # pinned.before
  /\ \E w \in Threads :
       threads[w].state = "draining" /\ threads[w].inserted # {}

\* C26: a DatabaseTrieMut that has taken an insert or a delete goes on working
\* before it is applied: no later call on it panics, and after insert(k, v) its
\* get(k) returns v.
C26_StagedTrieReadsItsChange ==
  (trie.live /\ trie.ops > 0) =>
    /\ tc_status = "ok"
    /\ staged.op = "get" =>
         staged.ret = [ok |-> TRUE, value |-> Some(staged.value)]

\* C27: at every point inside TrieCollection::apply, between its set, increase,
\* decrease and delete calls, and after it returns, every hash whose reference
\* count is greater than zero is present in the store.
C27_CountedHashesStored ==
  \A h \in DOMAIN tc_counter : count(tc_counter, h) > 0 => h \in DOMAIN tc_database

\* inside apply, after a decrease to zero whose delete is still to come, while
\* another hash is counted more than once
C27_BetweenDecreaseAndFree ==
  /\ applying.running
  /\ applying.zero # None
  /\ \E h \in DOMAIN tc_counter : count(tc_counter, h) > 1

\* C28: over the lifetime of a CachedHandle the store under it is read at most
\* once for any hash, and every get of a hash returns the bytes of that first
\* read, also after reads of other hashes have been inserted into the cache.
C28_ReadThroughOnce ==
  /\ \A k \in CacheKeys : read_log.reads[k] <= 1
  /\ read_log.got.ret # None =>
       /\ read_log.reads[read_log.got.key] = 1
       /\ read_log.got.ret = read_log.first[read_log.got.key]
  /\ \A k \in CacheKeys :
       read_log.reads[k] = 1 => Cache_get(handle.cache, k) = read_log.first[k]

\* a get of a hash read before, after another hash has been inserted into the
\* cache and the store has changed the bytes of the first
C28_RepeatedGetAfterLaterInsert ==
  /\ read_log.got.ret # None
  /\ handle.cache.map[read_log.got.key] < handle.cache.cache_len - 1
  /\ handle.db[read_log.got.key] # read_log.got.ret[1]

\* C29: over a trie whose nodes all resolve the iterator is finite and
\* one-shot: its next() returns None after finitely many calls, and every call
\* after the first None returns None as well.
C29_IteratorEndsAndStaysEnded ==
  /\ [](after_none.calls > 0 => (iter.state = "done" /\ after_none.out = None))
  /\ [](iter.state = "live" => RootResolves(root, database))
  /\ (iter.state = "live") ~> (iter.state = "done")

\* next() called again after the None that ended the walk of a trie whose root
\* is a Branch and that has yielded two pairs
C29_CalledAgainAfterNone ==
  /\ after_none.calls = MaxCallsAfterNone
  /\ Len(yielded) >= 2
  /\ root_node(root, database).type = "Branch"

\* C30: after Trie::build and after any Trie::insert or Trie::remove no Branch
\* reachable from the root of the Trie of lib.rs has fewer than two live
\* entries: a common prefix of one nibble becomes an Extension too.
C30_TrieBranchesHaveTwoEntries ==
  lib_trie.root # EMPTY_TRIE_HASH =>
    /\ Resolves(lib_trie.database, lib_trie.root)
    /\ BranchesLive(root_node(lib_trie.root, lib_trie.database), lib_trie.database)

====
